---- MODULE Spec2Model ----
(***************************************************************************)
(* Sliding window + token bucket rate limiter with abuse heuristics and a  *)
(* bounded in-memory store (src/src/utils/rateLimiting.ts).                *)
(*                                                                         *)
(* Representation.                                                         *)
(*  - An optional value (TypeScript `x?: T`, null, undefined) is the empty *)
(*    tuple None or the one-element tuple Some(v).                         *)
(*  - Times are integers in milliseconds, as in the source.                *)
(*  - The token count is a JavaScript double in the source.  Here it is an *)
(*    exact rational: an integer number of 1/TokenUnit tokens.  A refill   *)
(*    rate is an integer number of 1/RateUnit tokens per second, so that   *)
(*    the smallest rate the source admits (0.1 per second) is 1.           *)
(*  - shortHash is SHA-256 truncated to 16 hex digits; it is modelled as   *)
(*    collision free on the inputs of the model.                           *)
(***************************************************************************)
EXTENDS Integers, Sequences, FiniteSets, Bags, TLC

(* ------------------------------------------------------------------ *)
(* Optional values and arithmetic helpers                              *)
(* ------------------------------------------------------------------ *)

None == <<>>

Some(v) == <<v>>

\* JavaScript `a ?? b`
OrElse(o, d) == IF o = None THEN d ELSE o[1]

\* JavaScript truthiness of an optional number: undefined and 0 are falsy
TruthyNum(o) == o # None /\ o[1] # 0

\* JavaScript truthiness of an optional string: undefined and "" are falsy
TruthyStr(o) == o # None /\ o[1] # ""

Max2(a, b) == IF a >= b THEN a ELSE b

Min2(a, b) == IF a <= b THEN a ELSE b

\* JavaScript NaN where a configuration number may be NaN: an integer no
\* number of the model comes near
NaN == -2147483647

\* Math.max(a, b): NaN when either argument is NaN
MathMax(a, b) == IF a = NaN \/ b = NaN THEN NaN ELSE Max2(a, b)

\* JavaScript a >= b: false when either side is NaN
Geq(a, b) == a # NaN /\ b # NaN /\ a >= b

\* Milliseconds per second: the divisor of secs()
MsPerSec == 1000

\* Refill rates are counted in tenths of a token per second
RateUnit == 10

\* Token counts are counted in 1/TokenUnit tokens: one millisecond at the
\* rate of 1/RateUnit tokens per second adds exactly one unit
TokenUnit == MsPerSec * RateUnit

\* clamp without its lower bound
clampNoFloor(n, min, max) == Min2(max, n)

\* Math.max(min, Math.min(max, n))
clamp(n, min, max) == Max2(min, Min2(max, n))

\* Math.ceil(a / b) for b > 0
ceilDiv(a, b) == -((-a) \div b)

\* Math.floor(ms / 1000) in the place of secs
secsFloor(ms) == ms.n \div (ms.d * MsPerSec)

\* Math.ceil(ms / 1000); ms is the fraction ms.n / ms.d with ms.d > 0
secs(ms) == ceilDiv(ms.n, ms.d * MsPerSec)

\* A finite nowMs overrides the wall clock reading dateNow
nowMsOverride(n, dateNow) == IF n # None THEN n[1] ELSE dateNow

(* ------------------------------------------------------------------ *)
(* Hashing and the composite key                                       *)
(* ------------------------------------------------------------------ *)

\* The 16 hex digit prefix of sha256(input), collision free in the model
shortHash(input) == "#" \o input

\* compositeKey writing a missing ip or sessionId as the text "null"
compositeKeyNullTagged(ip, sessionId, route) ==
  LET ipPart == OrElse(ip, "null")
      sessPart == OrElse(sessionId, "null")
      raw == ipPart \o "|" \o sessPart \o "|" \o route
  IN  shortHash(raw)

compositeKey(ip, sessionId, route) ==
  LET ipPart == OrElse(ip, "")
      sessPart == OrElse(sessionId, "")
      raw == ipPart \o "|" \o sessPart \o "|" \o route
  IN  shortHash(raw)

(* ------------------------------------------------------------------ *)
(* Configuration                                                       *)
(* ------------------------------------------------------------------ *)

DEFAULTS ==
  [ defaults |->
      [ sliding |-> [windowMs |-> 60000, max |-> 60],
        bucket |-> [capacity |-> 30, refillPerSecond |-> 10 * RateUnit],
        heuristics |-> [ duplicateWindowMs |-> 10000,
                         duplicateThreshold |-> 4,
                         rapidRetryMs |-> 3000,
                         spikeWindowMs |-> 250,
                         spikeThreshold |-> 8 ] ],
    store |-> [ maxEntries |-> 10000,
                idleTtlMs |-> 15 * 60000,
                minSweepIntervalMs |-> 10000 ] ]

\* A Partial<RouteRateConfig> with no field set: each of the groups
\* sliding, bucket and heuristics is None or Some(group), every leaf of a
\* group being None or Some(number)
NoOverride == [ sliding |-> None, bucket |-> None, heuristics |-> None ]

\* override.group?.leaf
Field(group, leaf) == IF group = None THEN None ELSE group[1][leaf]

\* override is None (no override: base is returned as it is) or
\* Some(partial)
mergeRouteConfig(base, override) ==
  IF override = None THEN base
  ELSE
    LET o == override[1]
        pick(g, f) == OrElse(Field(o[g], f), base[g][f])
    IN  [ sliding |-> [ windowMs |-> MathMax(1000, pick("sliding", "windowMs")),
                        max |-> MathMax(1, pick("sliding", "max")) ],
          bucket |-> [ capacity |-> MathMax(1, pick("bucket", "capacity")),
                       refillPerSecond |-> MathMax(1, pick("bucket", "refillPerSecond")) ],
          heuristics |->
            [ duplicateWindowMs |-> MathMax(1000, pick("heuristics", "duplicateWindowMs")),
              duplicateThreshold |-> MathMax(2, pick("heuristics", "duplicateThreshold")),
              rapidRetryMs |-> MathMax(250, pick("heuristics", "rapidRetryMs")),
              spikeWindowMs |-> MathMax(50, pick("heuristics", "spikeWindowMs")),
              spikeThreshold |-> MathMax(3, pick("heuristics", "spikeThreshold")) ] ]

\* new RateLimiter(c): c.defaults is None or Some(partial route config),
\* c.store has leaves None or Some(number); c.routes maps the routes that
\* have an override to Some(partial) (DEFAULTS.routes maps none)
RateLimiterNew(c) ==
  [ defaults |-> IF c.defaults # None
                 THEN mergeRouteConfig(DEFAULTS.defaults, c.defaults)
                 ELSE DEFAULTS.defaults,
    routes |-> c.routes,
    store |-> [ maxEntries |-> OrElse(c.store.maxEntries, DEFAULTS.store.maxEntries),
                idleTtlMs |-> OrElse(c.store.idleTtlMs, DEFAULTS.store.idleTtlMs),
                minSweepIntervalMs |->
                  OrElse(c.store.minSweepIntervalMs, DEFAULTS.store.minSweepIntervalMs) ] ]

\* this.cfg.routes?.[route]: routes maps a route to None or Some(partial)
routeConfig(c, route) ==
  mergeRouteConfig(c.defaults,
                   IF route \in DOMAIN c.routes THEN c.routes[route] ELSE None)

\* { ...(old ?? {}), ...overrides }: a group of overrides replaces the
\* whole group of old, a group overrides lacks is kept
Spread(old, overrides) ==
  LET o == OrElse(old, NoOverride)
  IN  [ g \in {"sliding", "bucket", "heuristics"} |->
          IF overrides[g] # None THEN overrides[g] ELSE o[g] ]

\* The configuration after configureRoute(route, overrides)
configureRoute(c, route, overrides) ==
  LET old == IF route \in DOMAIN c.routes THEN c.routes[route] ELSE None
      new == Some(Spread(old, overrides))
  IN  [ c EXCEPT !.routes =
          [ r \in (DOMAIN c.routes) \cup {route} |->
              IF r = route THEN new ELSE c.routes[r] ] ]

(* ------------------------------------------------------------------ *)
(* InMemoryStore                                                       *)
(* ------------------------------------------------------------------ *)
(* The store object is [map, lastSweep].  map is the JavaScript Map as *)
(* the sequence of its values in insertion order (the order in which   *)
(* `for (const [k, v] of this.map)` visits them); every value carries  *)
(* its key.                                                            *)

HasKey(map, key) == \E i \in 1..Len(map) : map[i].key = key

Lookup(map, key) == map[CHOOSE i \in 1..Len(map) : map[i].key = key]

MapKeys(map) == { map[i].key : i \in 1..Len(map) }

\* this.map.delete(k) for every k in keys
MapDelete(map, keys) ==
  LET F[i \in 0..Len(map)] ==
        IF i = 0 THEN <<>>
        ELSE IF map[i].key \in keys THEN F[i - 1] ELSE Append(F[i - 1], map[i])
  IN  F[Len(map)]

\* The caller mutates the object getOrCreate returned: the change is seen
\* in the map when the object is still one of its values
PutBack(map, s) ==
  [ i \in 1..Len(map) |-> IF map[i].key = s.key THEN s ELSE map[i] ]

\* The entry visited first among those with the smallest lastSeen
\* (the scan replaces its candidate only on a strictly smaller lastSeen)
evictOldest(map) ==
  IF map = <<>> THEN map
  ELSE
    LET i == CHOOSE i \in 1..Len(map) :
                 /\ \A j \in 1..Len(map) : map[i].lastSeen <= map[j].lastSeen
                 /\ \A j \in 1..(i - 1) : map[j].lastSeen > map[i].lastSeen
    IN  MapDelete(map, {map[i].key})

\* sweepIfNeeded keeping the entries that expire exactly now
sweepIfNeededStrict(st, now, opts) ==
  IF now - st.lastSweep < opts.minSweepIntervalMs
  THEN [ map |-> st.map, lastSweep |-> st.lastSweep, ran |-> FALSE ]
  ELSE
    LET toDelete == { st.map[i].key : i \in { j \in 1..Len(st.map) :
                                                st.map[j].expiresAt < now } }
    IN  [ map |-> MapDelete(st.map, toDelete), lastSweep |-> now, ran |-> TRUE ]

\* sweepIfNeeded without the throttle
sweepIfNeededUnthrottled(st, now, opts) ==
  LET toDelete == { st.map[i].key : i \in { j \in 1..Len(st.map) :
                                              st.map[j].expiresAt <= now } }
  IN  [ map |-> MapDelete(st.map, toDelete), lastSweep |-> now, ran |-> TRUE ]

\* Returns the store after the sweep and whether the sweep ran
sweepIfNeeded(st, now, opts) ==
  IF now - st.lastSweep < opts.minSweepIntervalMs
  THEN [ map |-> st.map, lastSweep |-> st.lastSweep, ran |-> FALSE ]
  ELSE
    LET toDelete == { st.map[i].key : i \in { j \in 1..Len(st.map) :
                                                st.map[j].expiresAt <= now } }
    IN  [ map |-> MapDelete(st.map, toDelete), lastSweep |-> now, ran |-> TRUE ]

\* getOrCreate that refreshes lastSeen of a present key but not expiresAt
getOrCreateNoRefresh(st, opts, key, route, now, routeCfg) ==
  LET present == HasKey(st.map, key)
      evicted == IF ~present /\ Len(st.map) >= opts.maxEntries
                 THEN evictOldest(st.map) ELSE st.map
      s == IF present
           THEN [ Lookup(st.map, key) EXCEPT !.lastSeen = now ]
           ELSE [ key |-> key,
                  route |-> route,
                  tokens |-> routeCfg.bucket.capacity * TokenUnit,
                  lastRefill |-> now,
                  attempts |-> <<>>,
                  contentHistory |-> <<>>,
                  lastSeen |-> now,
                  expiresAt |-> now + opts.idleTtlMs,
                  lastDeniedAt |-> None ]
      map1 == IF present THEN PutBack(st.map, s) ELSE Append(evicted, s)
      sw == sweepIfNeeded([map |-> map1, lastSweep |-> st.lastSweep], now, opts)
  IN  [ map |-> sw.map, lastSweep |-> sw.lastSweep, s |-> s,
        created |-> ~present, swept |-> sw.ran,
        evicted |-> MapKeys(st.map) \ MapKeys(evicted) ]

\* Returns the store after the call, the object s handed to the caller,
\* whether s was created by this call, whether the sweep ran, and the
\* keys evictOldest deleted
getOrCreate(st, opts, key, route, now, routeCfg) ==
  LET present == HasKey(st.map, key)
      evicted == IF ~present /\ Len(st.map) >= opts.maxEntries
                 THEN evictOldest(st.map) ELSE st.map
      s == IF present
           THEN [ Lookup(st.map, key) EXCEPT !.lastSeen = now,
                                             !.expiresAt = now + opts.idleTtlMs ]
           ELSE [ key |-> key,
                  route |-> route,
                  tokens |-> routeCfg.bucket.capacity * TokenUnit,
                  lastRefill |-> now,
                  attempts |-> <<>>,
                  contentHistory |-> <<>>,
                  lastSeen |-> now,
                  expiresAt |-> now + opts.idleTtlMs,
                  lastDeniedAt |-> None ]
      map1 == IF present THEN PutBack(st.map, s) ELSE Append(evicted, s)
      sw == sweepIfNeeded([map |-> map1, lastSweep |-> st.lastSweep], now, opts)
  IN  [ map |-> sw.map, lastSweep |-> sw.lastSweep, s |-> s,
        created |-> ~present, swept |-> sw.ran,
        evicted |-> MapKeys(st.map) \ MapKeys(evicted) ]

(* ------------------------------------------------------------------ *)
(* RateLimiter: maintenance and detectors                              *)
(* ------------------------------------------------------------------ *)

\* Content longer than this is cut before hashing
ContentHashChars == 10000

\* contentHistory keeps at most this many entries
ContentHistoryCap == 1000

\* attempts keeps at most this many entries
AttemptsCap == 2000

\* The signature is None, or Some(string)
contentSig(ctx) ==
  IF TruthyStr(ctx.contentFingerprint) THEN ctx.contentFingerprint
  ELSE IF ctx.content # None /\ Len(ctx.content[1]) > 0
       THEN LET c == ctx.content[1]
                trimmed == IF Len(c) > ContentHashChars
                           THEN SubSeq(c, 1, ContentHashChars) ELSE c
            IN  Some(shortHash(trimmed))
       ELSE None

\* refillTokens without the cap at capacity
refillTokensUncapped(s, now, cfg) ==
  IF now <= s.lastRefill THEN s
  ELSE [ s EXCEPT !.tokens = s.tokens + (now - s.lastRefill) * cfg.bucket.refillPerSecond,
                  !.lastRefill = now ]

\* refillTokens that sets lastRefill to now when now is the earlier
refillTokensRewinding(s, now, cfg) ==
  IF now <= s.lastRefill THEN [ s EXCEPT !.lastRefill = now ]
  ELSE
    LET deltaMs == now - s.lastRefill
        add == deltaMs * cfg.bucket.refillPerSecond
    IN  [ s EXCEPT !.tokens = Min2(cfg.bucket.capacity * TokenUnit, s.tokens + add),
                   !.lastRefill = now ]

refillTokens(s, now, cfg) ==
  IF now <= s.lastRefill THEN s
  ELSE
    LET deltaMs == now - s.lastRefill
        add == deltaMs * cfg.bucket.refillPerSecond
    IN  [ s EXCEPT !.tokens = Min2(cfg.bucket.capacity * TokenUnit, s.tokens + add),
                   !.lastRefill = now ]

\* while (a.length && a[0].t <= cutoff) a.shift()
ShiftWhileOld(a, cutoff) ==
  LET keep == { i \in 1..Len(a) : a[i].t > cutoff }
  IN  IF keep = {} THEN <<>>
      ELSE SubSeq(a, CHOOSE i \in keep : \A j \in keep : i <= j, Len(a))

\* if (a.length > cap) a.splice(0, a.length - cap)
KeepLast(a, cap) ==
  IF Len(a) > cap THEN SubSeq(a, Len(a) - cap + 1, Len(a)) ELSE a

pruneWindow(s, now, cfg) ==
  [ s EXCEPT !.attempts = ShiftWhileOld(s.attempts, now - cfg.sliding.windowMs) ]

\* pruneContentHistory keeping the entries that are exactly
\* duplicateWindowMs old
pruneContentHistoryStrict(s, now, cfg) ==
  [ s EXCEPT !.contentHistory =
      KeepLast(ShiftWhileOld(s.contentHistory,
                             now - cfg.heuristics.duplicateWindowMs - 1),
               ContentHistoryCap) ]

pruneContentHistory(s, now, cfg) ==
  [ s EXCEPT !.contentHistory =
      KeepLast(ShiftWhileOld(s.contentHistory, now - cfg.heuristics.duplicateWindowMs),
               ContentHistoryCap) ]

\* countRecentAttempts leaving out the attempts that are exactly windowMs old
countRecentAttemptsStrict(s, windowMs, now) ==
  LET cutoff == now - windowMs
      older == { i \in 1..Len(s.attempts) : s.attempts[i].t <= cutoff }
  IN  IF older = {} THEN Len(s.attempts)
      ELSE Len(s.attempts) - (CHOOSE i \in older : \A j \in older : j <= i)

\* Length of the longest suffix of attempts with t >= now - windowMs
countRecentAttempts(s, windowMs, now) ==
  LET cutoff == now - windowMs
      older == { i \in 1..Len(s.attempts) : s.attempts[i].t < cutoff }
  IN  IF older = {} THEN Len(s.attempts)
      ELSE Len(s.attempts) - (CHOOSE i \in older : \A j \in older : j <= i)

\* Scans contentHistory from its end and stops at the first entry with
\* t < now - windowMs; earliestTs is the t of the last match visited
countDuplicate(s, hash, now, windowMs) ==
  IF ~TruthyStr(hash) THEN [ count |-> 0, earliestTs |-> None ]
  ELSE
    LET cutoff == now - windowMs
        h == s.contentHistory
        older == { i \in 1..Len(h) : h[i].t < cutoff }
        from == IF older = {} THEN 1
                ELSE (CHOOSE i \in older : \A j \in older : j <= i) + 1
        hits == { i \in from..Len(h) : h[i].h = hash }
    IN  [ count |-> Cardinality(hits),
          earliestTs |-> IF hits = {} THEN None
                         ELSE Some(h[CHOOSE i \in hits : \A j \in hits : i <= j].t) ]

(* ------------------------------------------------------------------ *)
(* RateLimiter.isAllowed and RateLimiter.record                        *)
(* ------------------------------------------------------------------ *)
(* A retry candidate is a number of milliseconds, kept as the fraction *)
(* n / d with d > 0 (the token candidate need not be whole).           *)

\* secs(Math.max(0, ...retryCandidates)): the ceiling is monotone, so it
\* is the largest of 0 and the ceilings of the candidates
SecsOfMax(cands) ==
  LET S == {0} \cup { secs(cands[i]) : i \in 1..Len(cands) }
  IN  CHOOSE m \in S : \A x \in S : x <= m

\* The three maintenance calls that open isAllowed and record
Maintain(s, now, routeCfg) ==
  refillTokens(pruneContentHistory(pruneWindow(s, now, routeCfg), now, routeCfg),
               now, routeCfg)

\* rapidRetry that still triggers when exactly rapidRetryMs have passed
rapidRetryInclusive(s, now, routeCfg) ==
  IF TruthyNum(s.lastDeniedAt)
  THEN now - s.lastDeniedAt[1] <= routeCfg.heuristics.rapidRetryMs
  ELSE FALSE

\* s.lastDeniedAt ? now - s.lastDeniedAt < rapidRetryMs : false
rapidRetry(s, now, routeCfg) ==
  IF TruthyNum(s.lastDeniedAt)
  THEN now - s.lastDeniedAt[1] < routeCfg.heuristics.rapidRetryMs
  ELSE FALSE

\* heuristicsTriggered with the spike detector pushed first
heuristicsTriggeredSpikeFirst(dupHit, rapid, spikeHit) ==
  (IF spikeHit THEN <<"multi_tab_spike">> ELSE <<>>)
  \o (IF dupHit THEN <<"duplicate_burst">> ELSE <<>>)
  \o (IF rapid THEN <<"rapid_retries">> ELSE <<>>)

\* The array heuristicsTriggered after the three detectors pushed their
\* reasons, in the order of the three if statements
heuristicsTriggered(dupHit, rapid, spikeHit) ==
  (IF dupHit THEN <<"duplicate_burst">> ELSE <<>>)
  \o (IF rapid THEN <<"rapid_retries">> ELSE <<>>)
  \o (IF spikeHit THEN <<"multi_tab_spike">> ELSE <<>>)

\* The decision taken on the maintained entry s, with the values it rests on
Decide(s, ctx, now, routeCfg, key) ==
  LET h == routeCfg.heuristics
      sig == contentSig(ctx)
      dup == countDuplicate(s, sig, now, h.duplicateWindowMs)
      spikeCount == countRecentAttempts(s, h.spikeWindowMs, now)
      rapid == rapidRetry(s, now, routeCfg)
      dupHit == Geq(dup.count, h.duplicateThreshold)
      spikeHit == Geq(spikeCount, h.spikeThreshold)
      triggered == heuristicsTriggered(dupHit, rapid, spikeHit)
      windowCount == Len(s.attempts)
      windowLimitHit == windowCount >= routeCfg.sliding.max
      earliest == IF Len(s.attempts) > 0 THEN s.attempts[1].t ELSE now
      tokensAfterRefill == s.tokens
      tokenLimitHit == tokensAfterRefill < TokenUnit
      retryCandidates ==
        (IF dupHit /\ TruthyNum(dup.earliestTs)
         THEN << [n |-> h.duplicateWindowMs - (now - dup.earliestTs[1]), d |-> 1] >>
         ELSE <<>>)
        \o (IF rapid
            THEN << [n |-> h.rapidRetryMs - (now - OrElse(s.lastDeniedAt, now)), d |-> 1] >>
            ELSE <<>>)
        \o (IF spikeHit THEN << [n |-> h.spikeWindowMs, d |-> 1] >> ELSE <<>>)
        \o (IF windowLimitHit
            THEN << [n |-> routeCfg.sliding.windowMs - (now - earliest), d |-> 1] >>
            ELSE <<>>)
        \o (IF tokenLimitHit
            THEN << [n |-> TokenUnit - tokensAfterRefill,
                     d |-> routeCfg.bucket.refillPerSecond] >>
            ELSE <<>>)
      allowed == ~(Len(triggered) > 0 \/ windowLimitHit \/ tokenLimitHit)
      reason == IF Len(triggered) > 0 THEN triggered[1]
                ELSE IF windowLimitHit \/ tokenLimitHit THEN "rate_limited"
                ELSE "ok"
      retryAfter == IF allowed THEN 0 ELSE Max2(1, SecsOfMax(retryCandidates))
  IN  [ allowed |-> allowed,
        reason |-> reason,
        retryAfter |-> retryAfter,
        key |-> key,
        remaining |-> clamp(routeCfg.sliding.max - windowCount, 0, routeCfg.sliding.max),
        limit |-> routeCfg.sliding.max,
        \* values the decision rests on (not part of RateLimitDecision)
        dupCount |-> dup.count,
        spikeCount |-> spikeCount,
        rapidRetry |-> rapid,
        windowCount |-> windowCount,
        tokensAfterRefill |-> tokensAfterRefill ]

\* NoteDenial that also appends the attempt to the sliding window
NoteDenialCounting(s, allowed, now) ==
  [ s EXCEPT !.lastDeniedAt = IF ~allowed THEN Some(now) ELSE s.lastDeniedAt,
             !.attempts = Append(s.attempts, [t |-> now, h |-> None]) ]

\* NoteDenial that also takes a token for an allowed request
NoteDenialConsuming(s, allowed, now) ==
  IF ~allowed THEN [ s EXCEPT !.lastDeniedAt = Some(now) ]
  ELSE [ s EXCEPT !.tokens = Max2(0, s.tokens - TokenUnit) ]

\* if (!allowed) s.lastDeniedAt = now
NoteDenial(s, allowed, now) ==
  IF ~allowed THEN [ s EXCEPT !.lastDeniedAt = Some(now) ] ELSE s

\* Returns the store after the call, the decision, the object got from
\* getOrCreate (got) and the object as the call leaves it (s)
isAllowed(c, st, ctx, dateNow) ==
  LET now == nowMsOverride(ctx.nowMs, dateNow)
      routeCfg == routeConfig(c, ctx.route)
      key == compositeKey(ctx.ip, ctx.sessionId, ctx.route)
      g == getOrCreate(st, c.store, key, ctx.route, now, routeCfg)
      s1 == Maintain(g.s, now, routeCfg)
      dec == Decide(s1, ctx, now, routeCfg, key)
      s2 == NoteDenial(s1, dec.allowed, now)
  IN  [ map |-> PutBack(g.map, s2), lastSweep |-> g.lastSweep,
        decision |-> dec, now |-> now, key |-> key, routeCfg |-> routeCfg,
        created |-> g.created, swept |-> g.swept, evicted |-> g.evicted,
        got |-> g.s, s |-> s2 ]

\* Commit that appends the attempt of an allowed decision only
CommitAllowedOnly(s, sig, allowed, now, routeCfg) ==
  LET a1 == IF allowed THEN Append(s.attempts, [t |-> now, h |-> sig]) ELSE s.attempts
      s1 == IF allowed
            THEN [ s EXCEPT !.tokens = Max2(0, s.tokens - TokenUnit),
                            !.contentHistory =
                               IF TruthyStr(sig)
                               THEN Append(s.contentHistory, [t |-> now, h |-> sig])
                               ELSE s.contentHistory ]
            ELSE [ s EXCEPT !.lastDeniedAt = Some(now) ]
  IN  [ s1 EXCEPT !.attempts =
          KeepLast(ShiftWhileOld(a1, now - routeCfg.sliding.windowMs), AttemptsCap) ]

\* Commit that takes a token for a denied decision too
CommitTakingAlways(s, sig, allowed, now, routeCfg) ==
  LET a1 == Append(s.attempts, [t |-> now, h |-> sig])
      s1 == IF allowed
            THEN [ s EXCEPT !.tokens = Max2(0, s.tokens - TokenUnit),
                            !.contentHistory =
                               IF TruthyStr(sig)
                               THEN Append(s.contentHistory, [t |-> now, h |-> sig])
                               ELSE s.contentHistory ]
            ELSE [ s EXCEPT !.tokens = Max2(0, s.tokens - TokenUnit),
                            !.lastDeniedAt = Some(now) ]
  IN  [ s1 EXCEPT !.attempts =
          KeepLast(ShiftWhileOld(a1, now - routeCfg.sliding.windowMs), AttemptsCap) ]

\* The attempt is appended; an allowed one takes a token and leaves its
\* signature, a denied one sets the denial memory; then attempts is trimmed
Commit(s, sig, allowed, now, routeCfg) ==
  LET a1 == Append(s.attempts, [t |-> now, h |-> sig])
      s1 == IF allowed
            THEN [ s EXCEPT !.tokens = Max2(0, s.tokens - TokenUnit),
                            !.contentHistory =
                               IF TruthyStr(sig)
                               THEN Append(s.contentHistory, [t |-> now, h |-> sig])
                               ELSE s.contentHistory ]
            ELSE [ s EXCEPT !.lastDeniedAt = Some(now) ]
  IN  [ s1 EXCEPT !.attempts =
          KeepLast(ShiftWhileOld(a1, now - routeCfg.sliding.windowMs), AttemptsCap) ]

\* decisionAllowed is decision.allowed, the only field of the decision
\* that record reads.  ret is the value record returns.
record(c, st, ctx, decisionAllowed, dateNow) ==
  LET now == nowMsOverride(ctx.nowMs, dateNow)
      routeCfg == routeConfig(c, ctx.route)
      key == compositeKey(ctx.ip, ctx.sessionId, ctx.route)
      g == getOrCreate(st, c.store, key, ctx.route, now, routeCfg)
      s1 == Maintain(g.s, now, routeCfg)
      s2 == Commit(s1, contentSig(ctx), decisionAllowed, now, routeCfg)
  IN  [ map |-> PutBack(g.map, s2), lastSweep |-> g.lastSweep,
        ret |-> [ key |-> key,
                  route |-> ctx.route,
                  tokens |-> s2.tokens \div TokenUnit,
                  windowCount |-> Len(s2.attempts),
                  expiresAt |-> s2.expiresAt ],
        now |-> now, key |-> key, routeCfg |-> routeCfg,
        created |-> g.created, swept |-> g.swept, evicted |-> g.evicted,
        got |-> g.s, s |-> s2 ]

(* ------------------------------------------------------------------ *)
(* lib/rate-limiter.ts and app/api/rewrite/route.ts                    *)
(* ------------------------------------------------------------------ *)

\* What default.limit hands back
LimitResult(decision) ==
  [ success |-> decision.allowed, retryAfter |-> decision.retryAfter,
    remaining |-> decision.remaining, limit |-> decision.limit ]

\* record called on the store isAllowed left
RecordAfter(c, ctx, a, allowed, t2) ==
  record(c, [map |-> a.map, lastSweep |-> a.lastSweep], ctx, allowed, t2)

\* The store after default.limit, what its isAllowed call gave (checked),
\* what its record call gave (recorded: None when record was not called),
\* the call made last, and the object handed back
LimitOutcome(a, recorded, last) ==
  [ map |-> last.map, lastSweep |-> last.lastSweep,
    checked |-> a, recorded |-> recorded, last |-> last,
    result |-> LimitResult(a.decision) ]

LimitRecorded(a, r) == LimitOutcome(a, Some(r), r)

\* if (decision.allowed) record(ctx, decision)
LimitAfterCheck(c, ctx, t2, a) ==
  IF a.decision.allowed
  THEN LimitRecorded(a, RecordAfter(c, ctx, a, TRUE, t2))
  ELSE LimitOutcome(a, None, a)

\* default.limit that records the attempt of a denied decision too
limitRecordingDenials(c, st, ctx, t1, t2) ==
  LimitRecorded(isAllowed(c, st, ctx, t1),
                RecordAfter(c, ctx, isAllowed(c, st, ctx, t1),
                            isAllowed(c, st, ctx, t1).decision.allowed, t2))

\* default.limit: isAllowed and, when the decision is allowed, record.  The
\* function has no await: both calls run in one turn of the event loop.
\* t1 and t2 are what the clock reads in the two calls when ctx has no nowMs.
limit(c, st, ctx, t1, t2) == LimitAfterCheck(c, ctx, t2, isAllowed(c, st, ctx, t1))

\* What the limiter call of checkRateLimit can do
Faults == {"none", "throws", "noResult"}

\* The retryAfterSec checkRateLimit uses for a result that has none
DefaultRetryAfterSec == 30

\* checkRateLimit that reports a limiter that threw as a denial
checkRateLimitFailClosed(fault, result) ==
  IF fault = "throws" THEN [ ok |-> FALSE, retryAfterSec |-> Some(DefaultRetryAfterSec) ]
  ELSE IF fault = "noResult" \/ result = None
  THEN [ ok |-> TRUE, retryAfterSec |-> None ]
  ELSE IF result[1].success THEN [ ok |-> TRUE, retryAfterSec |-> None ]
  ELSE [ ok |-> FALSE, retryAfterSec |-> Some(result[1].retryAfter) ]

\* checkRateLimit, from what the limiter call did: it threw ("throws"),
\* every shape tried gave null or undefined ("noResult"), or rl.limit
\* returned result[1]
checkRateLimit(fault, result) ==
  IF fault = "throws" THEN [ ok |-> TRUE, retryAfterSec |-> None ]
  ELSE IF fault = "noResult" \/ result = None
  THEN [ ok |-> TRUE, retryAfterSec |-> None ]
  ELSE IF result[1].success THEN [ ok |-> TRUE, retryAfterSec |-> None ]
  ELSE [ ok |-> FALSE, retryAfterSec |-> Some(result[1].retryAfter) ]

\* The object { key } checkRateLimit passes to rl.limit: route, ip,
\* sessionId, content and nowMs are undefined.  The undefined route reads
\* as the text "undefined" in the key template and in routes?.[route].
KeyCtx(key) ==
  [ route |-> "undefined", ip |-> None, sessionId |-> None,
    content |-> None, contentFingerprint |-> None, nowMs |-> None,
    key |-> Some(key) ]

\* The rate limit step of POST: 429 with a Retry-After header, or 0 when
\* the handler goes on to the next step
RateLimitStep(rl) ==
  IF ~rl.ok
  THEN [ status |-> 429, retryAfterHeader |-> Some(ToString(rl.retryAfterSec[1])) ]
  ELSE [ status |-> 0, retryAfterHeader |-> None ]

(* ------------------------------------------------------------------ *)
(* The limiter and its callers as a state machine                      *)
(* ------------------------------------------------------------------ *)

VARIABLES
  cfg,          \* RateLimiter.cfg, set by the constructor
  map,          \* InMemoryStore.map
  lastSweep,    \* InMemoryStore.lastSweep
  env,          \* the callers: the values they pass and how many calls they make
  calls,        \* number of isAllowed and record calls made so far
  lastCall,     \* the most recent call: its arguments, what it read and returned
  prevCall,     \* the call before the most recent one
  outstanding,  \* bag of the decisions isAllowed returned that were not yet recorded
  log           \* every call so far, oldest first: what was asked and whether it swept

vars == << cfg, map, lastSweep, env, calls, lastCall, prevCall, outstanding, log >>

(* Bounds: the number of calls the callers of each kind make *)

MaxCallsClock == 4

MaxCallsDup == 5

MaxCallsStore == 4

MaxCallsExample == 7

MaxCallsHeur == 6

MaxCallsTtl == 4

MaxCallsConfig == 3

MaxCallsKey == 3

MaxCallsToken == 5

MaxCallsSpike == 4

MaxCallsEvict == 4

\* Calls made on the sweep setup
MaxCallsSweep == 4

\* Calls made on the limit setups
MaxCallsLimit == 5

\* Requests made to the rewrite handler
MaxCallsPost == 9

\* A Partial<RouteRateConfig> with every field set
\* (windowMs, max, capacity, refillPerSecond, duplicateWindowMs,
\*  duplicateThreshold, rapidRetryMs, spikeWindowMs, spikeThreshold)
FullOverride(w, m, c, r, dw, dt, rr, sw, st) ==
  [ sliding |-> Some([windowMs |-> Some(w), max |-> Some(m)]),
    bucket |-> Some([capacity |-> Some(c), refillPerSecond |-> Some(r)]),
    heuristics |-> Some([ duplicateWindowMs |-> Some(dw),
                          duplicateThreshold |-> Some(dt),
                          rapidRetryMs |-> Some(rr),
                          spikeWindowMs |-> Some(sw),
                          spikeThreshold |-> Some(st) ]) ]

NoStoreOverride == [ maxEntries |-> None, idleTtlMs |-> None, minSweepIntervalMs |-> None ]

\* One caller on one key whose clock may stand still or run backwards and
\* who may pass any decision to record.  Window 1 s / max 1, bucket
\* capacity 1 / refill 0.1 per second.
ClockSetups ==
  { [ user |-> [ defaults |-> Some(FullOverride(1000, 1, 1, 1, 1000, 2, 250, 50, 3)),
                 routes |-> <<>>,
                 store |-> NoStoreOverride ],
      env |-> [ name |-> "clock",
                routes |-> {"r"}, ips |-> {None}, sessions |-> {None},
                contents |-> {None}, fingerprints |-> {None},
                times |-> {0, 200, 1000},
                overrides |-> {},
                monotone |-> FALSE, forged |-> TRUE,
                maxCalls |-> MaxCallsClock ] ] }

\* One caller on one key submitting two payloads; every record passes a
\* decision isAllowed returned for that payload.  Duplicate threshold 2
\* within 1 s; window and bucket have room for every call.
DupSetups ==
  { [ user |-> [ defaults |-> Some(FullOverride(1000, 10, 10, 100, 1000, 2, 250, 50, 8)),
                 routes |-> <<>>,
                 store |-> NoStoreOverride ],
      env |-> [ name |-> "dup",
                routes |-> {"r"}, ips |-> {None}, sessions |-> {None},
                contents |-> {Some("a"), Some("b")}, fingerprints |-> {None},
                times |-> {500, 1500},
                overrides |-> {},
                monotone |-> TRUE, forged |-> FALSE,
                maxCalls |-> MaxCallsDup ] ] }

\* Three identities on a store of maxEntries 0 or 2 with a 1 s idle TTL
\* and a 1 s sweep interval; route limits are the defaults.
StoreSetups ==
  { [ user |-> [ defaults |-> None,
                 routes |-> <<>>,
                 store |-> [ maxEntries |-> Some(m), idleTtlMs |-> Some(1000),
                             minSweepIntervalMs |-> Some(1000) ] ],
      env |-> [ name |-> "store",
                routes |-> {"r"}, ips |-> {None, Some("a"), Some("b")},
                sessions |-> {None},
                contents |-> {None}, fingerprints |-> {None},
                times |-> {0, 1000, 2000},
                overrides |-> {},
                monotone |-> TRUE, forged |-> FALSE,
                maxCalls |-> MaxCallsStore ] ] : m \in {0, 2} }

\* Window 60000 ms / max 3, bucket capacity 3 / refill 1 per second; calls
\* at 0, 1000, 2000 and 2500 ms without content.
ExampleSetups ==
  { [ user |-> [ defaults |-> Some([ NoOverride EXCEPT
                                       !.sliding = Some([ windowMs |-> Some(60000),
                                                          max |-> Some(3) ]),
                                       !.bucket = Some([ capacity |-> Some(3),
                                                         refillPerSecond |->
                                                           Some(RateUnit) ]) ]),
                 routes |-> <<>>,
                 store |-> NoStoreOverride ],
      env |-> [ name |-> "example",
                routes |-> {"r"}, ips |-> {Some("a")}, sessions |-> {Some("s")},
                contents |-> {None}, fingerprints |-> {None},
                times |-> {0, 1000, 2000, 2500},
                overrides |-> {},
                monotone |-> TRUE, forged |-> FALSE,
                maxCalls |-> MaxCallsExample ] ] }

\* One caller on one key submitting one payload at 0, 1000, 2000 and 3000 ms;
\* every record passes a decision isAllowed returned.  Window 1 s / max 1,
\* bucket capacity 1 / refill 1 per second, duplicate threshold 2 within
\* 2 s, rapid-retry window 2 s.
HeurSetups ==
  { [ user |-> [ defaults |-> Some(FullOverride(1000, 1, 1, RateUnit, 2000, 2, 2000, 50, 3)),
                 routes |-> <<>>,
                 store |-> NoStoreOverride ],
      env |-> [ name |-> "heur",
                routes |-> {"r"}, ips |-> {None}, sessions |-> {None},
                contents |-> {Some("a")}, fingerprints |-> {None},
                times |-> {0, 1000, 2000, 3000},
                overrides |-> {},
                monotone |-> TRUE, forged |-> FALSE,
                maxCalls |-> MaxCallsHeur ] ] }

\* Two identities on a store whose idle TTL is 0 or 1 s, swept at most
\* once a second; route limits are the defaults.
TtlSetups ==
  { [ user |-> [ defaults |-> None,
                 routes |-> <<>>,
                 store |-> [ maxEntries |-> None, idleTtlMs |-> Some(ttl),
                             minSweepIntervalMs |-> Some(1000) ] ],
      env |-> [ name |-> "ttl",
                routes |-> {"r"}, ips |-> {None, Some("a")}, sessions |-> {None},
                contents |-> {None}, fingerprints |-> {None},
                times |-> {0, 1000, 2000},
                overrides |-> {},
                monotone |-> TRUE, forged |-> FALSE,
                maxCalls |-> MaxCallsTtl ] ] : ttl \in {0, 1000} }

\* A heuristics group that sets the two thresholds only
Thresholds(dt, st) ==
  Some([ duplicateWindowMs |-> None, duplicateThreshold |-> Some(dt),
         rapidRetryMs |-> None, spikeWindowMs |-> None, spikeThreshold |-> Some(st) ])

\* The overrides handed to the constructor and to configureRoute: every
\* number 0, the sliding window alone, and thresholds that are 0 or NaN
ConfigOverrides ==
  { FullOverride(0, 0, 0, 0, 0, 0, 0, 0, 0),
    [ NoOverride EXCEPT !.sliding = Some([windowMs |-> Some(2000), max |-> None]) ],
    [ NoOverride EXCEPT !.heuristics = Thresholds(0, NaN) ],
    [ NoOverride EXCEPT !.heuristics = Thresholds(NaN, 0) ] }

\* Two routes; the constructor gets no defaults or one of ConfigOverrides,
\* and configureRoute may be called between the calls.
ConfigSetups ==
  { [ user |-> [ defaults |-> d,
                 routes |-> <<>>,
                 store |-> NoStoreOverride ],
      env |-> [ name |-> "config",
                routes |-> {"r", "q"}, ips |-> {None}, sessions |-> {None},
                contents |-> {None}, fingerprints |-> {None},
                times |-> {0, 1000},
                overrides |-> ConfigOverrides,
                monotone |-> TRUE, forged |-> FALSE,
                maxCalls |-> MaxCallsConfig ] ] :
      d \in {None} \cup { Some(o) : o \in ConfigOverrides } }

\* Callers on one route that pass no ip, an empty ip or the ip "a", and no
\* sessionId or an empty one; route limits and store are the defaults.
KeySetups ==
  { [ user |-> [ defaults |-> None, routes |-> <<>>, store |-> NoStoreOverride ],
      env |-> [ name |-> "key",
                routes |-> {"r"}, ips |-> {None, Some(""), Some("a")},
                sessions |-> {None, Some("")},
                contents |-> {None}, fingerprints |-> {None},
                times |-> {0, 1000},
                overrides |-> {},
                monotone |-> TRUE, forged |-> FALSE,
                maxCalls |-> MaxCallsKey ] ] }

\* One caller on one key at 0, 500 and 4000 ms.  Window 60 s / max 5,
\* bucket capacity 1 / refill 0.1 per second: the bucket runs dry while
\* the window has room.
TokenSetups ==
  { [ user |-> [ defaults |-> Some(FullOverride(60000, 5, 1, 1, 1000, 2, 250, 50, 8)),
                 routes |-> <<>>,
                 store |-> NoStoreOverride ],
      env |-> [ name |-> "token",
                routes |-> {"r"}, ips |-> {None}, sessions |-> {None},
                contents |-> {None}, fingerprints |-> {None},
                times |-> {0, 500, 4000},
                overrides |-> {},
                monotone |-> TRUE, forged |-> FALSE,
                maxCalls |-> MaxCallsToken ] ] }

\* One caller on one key at 0, 50 and 100 ms who may pass any decision to
\* record.  Spike threshold 3 within 50 ms, rapid-retry window 250 ms;
\* window 1 s / max 5, bucket capacity 5 / refill 10 per second.
SpikeSetups ==
  { [ user |-> [ defaults |-> Some(FullOverride(1000, 5, 5, 10 * RateUnit,
                                                1000, 2, 250, 50, 3)),
                 routes |-> <<>>,
                 store |-> NoStoreOverride ],
      env |-> [ name |-> "spike",
                routes |-> {"r"}, ips |-> {None}, sessions |-> {None},
                contents |-> {None}, fingerprints |-> {None},
                times |-> {0, 50, 100},
                overrides |-> {},
                monotone |-> TRUE, forged |-> TRUE,
                maxCalls |-> MaxCallsSpike ] ] }

\* Three identities on a store of maxEntries 2 with the default idle TTL
\* and sweep interval: no entry expires, the third identity evicts.
EvictSetups ==
  { [ user |-> [ defaults |-> None,
                 routes |-> <<>>,
                 store |-> [ maxEntries |-> Some(2), idleTtlMs |-> None,
                             minSweepIntervalMs |-> None ] ],
      env |-> [ name |-> "evict",
                routes |-> {"r"}, ips |-> {None, Some("a"), Some("b")},
                sessions |-> {None},
                contents |-> {None}, fingerprints |-> {None},
                times |-> {0, 1000, 2000},
                overrides |-> {},
                monotone |-> TRUE, forged |-> FALSE,
                maxCalls |-> MaxCallsEvict ] ] }

\* Two identities whose clocks are not ordered, on a store with a 2 s idle
\* TTL swept at most once a second; route limits are the defaults.
SweepSetups ==
  { [ user |-> [ defaults |-> None,
                 routes |-> <<>>,
                 store |-> [ maxEntries |-> None, idleTtlMs |-> Some(2000),
                             minSweepIntervalMs |-> Some(1000) ] ],
      env |-> [ name |-> "sweep",
                routes |-> {"r"}, ips |-> {None, Some("a")}, sessions |-> {None},
                contents |-> {None}, fingerprints |-> {None},
                times |-> {0, 1000, 2000},
                overrides |-> {},
                monotone |-> FALSE, forged |-> FALSE,
                maxCalls |-> MaxCallsSweep ] ] }

\* Callers of default.limit on one key, with nowMs supplied in time order
\* or left to the clock.  Window 1 s / max 2, bucket capacity 3 / refill
\* 10 per second; the detectors need 8 attempts.
LimitSetups ==
  { [ user |-> [ defaults |-> Some(FullOverride(1000, 2, 3, 10 * RateUnit,
                                                1000, 8, 250, 50, 8)),
                 routes |-> <<>>,
                 store |-> NoStoreOverride ],
      env |-> [ name |-> "limit",
                routes |-> {"r"}, ips |-> {None}, sessions |-> {None},
                contents |-> {None}, fingerprints |-> {None},
                times |-> {0, 500, 1000},
                overrides |-> {},
                monotone |-> TRUE, forged |-> FALSE,
                limits |-> TRUE,
                maxCalls |-> MaxCallsLimit ] ] }

\* The rewrite handler on the limiter singleton (new RateLimiter() with no
\* argument), called for two sessions within one millisecond
SessionSetups ==
  { [ user |-> [ defaults |-> None, routes |-> <<>>, store |-> NoStoreOverride ],
      env |-> [ name |-> "sessions",
                routes |-> {"undefined"}, ips |-> {None}, sessions |-> {None},
                contents |-> {None}, fingerprints |-> {None},
                times |-> {1000},
                overrides |-> {},
                monotone |-> TRUE, forged |-> FALSE,
                sids |-> {"s1", "s2"}, faults |-> {"none"},
                maxCalls |-> MaxCallsPost ] ] }

\* The rewrite handler on the limiter singleton, called for one session
\* at two times; the limiter call may throw or give no result
FaultSetups ==
  { [ user |-> [ defaults |-> None, routes |-> <<>>, store |-> NoStoreOverride ],
      env |-> [ name |-> "faults",
                routes |-> {"undefined"}, ips |-> {None}, sessions |-> {None},
                contents |-> {None}, fingerprints |-> {None},
                times |-> {1000, 1100},
                overrides |-> {},
                monotone |-> TRUE, forged |-> FALSE,
                sids |-> {"s1"}, faults |-> Faults,
                maxCalls |-> MaxCallsPost ] ] }

\* Callers that use neither default.limit nor the rewrite handler
EnvDefaults == [ limits |-> FALSE, sids |-> {}, faults |-> {} ]

NoCall == [ op |-> "none", now |-> 0 ]

InitWith(setups) ==
  \E su \in setups :
    /\ cfg = RateLimiterNew(su.user)
    /\ env = su.env @@ EnvDefaults
    /\ map = <<>>
    /\ lastSweep = 0
    /\ calls = 0
    /\ lastCall = NoCall
    /\ prevCall = NoCall
    /\ outstanding = EmptyBag
    /\ log = <<>>

Init ==
  InitWith(ClockSetups \cup DupSetups \cup StoreSetups \cup ExampleSetups
           \cup HeurSetups \cup TtlSetups \cup ConfigSetups
           \cup KeySetups \cup TokenSetups \cup SpikeSetups \cup EvictSetups
           \cup SweepSetups \cup LimitSetups \cup SessionSetups \cup FaultSetups)

\* The contexts the callers pass
Ctxs ==
  [ route : env.routes, ip : env.ips, sessionId : env.sessions,
    content : env.contents, contentFingerprint : env.fingerprints,
    nowMs : { Some(t) : t \in env.times } ]

\* The entry of key in the store before a call: None or Some(entry)
EntryOf(m, key) == IF HasKey(m, key) THEN Some(Lookup(m, key)) ELSE None

IsAllowed(ctx) ==
  /\ calls < env.maxCalls
  /\ env.monotone => ctx.nowMs[1] >= lastCall.now
  /\ LET r == isAllowed(cfg, [map |-> map, lastSweep |-> lastSweep], ctx, ctx.nowMs[1])
     IN  /\ map' = r.map
         /\ lastSweep' = r.lastSweep
         /\ lastCall' = [ op |-> "isAllowed", ctx |-> ctx, now |-> r.now, key |-> r.key,
                          sig |-> contentSig(ctx), routeCfg |-> r.routeCfg,
                          allowed |-> r.decision.allowed, genuine |-> TRUE,
                          decision |-> r.decision, ret |-> None,
                          created |-> r.created, swept |-> r.swept,
                          evicted |-> r.evicted,
                          pre |-> EntryOf(map, r.key), got |-> r.got, s |-> r.s,
                          sizeBefore |-> Len(map) ]
         /\ outstanding' = outstanding (+) SetToBag({ [ key |-> r.key,
                                                        sig |-> contentSig(ctx),
                                                        allowed |-> r.decision.allowed ] })
         /\ log' = Append(log, [ op |-> "isAllowed", ctx |-> ctx, key |-> r.key,
                                 sig |-> contentSig(ctx), t |-> r.now,
                                 allowed |-> r.decision.allowed, genuine |-> TRUE,
                                 swept |-> r.swept ])
  /\ prevCall' = lastCall
  /\ calls' = calls + 1
  /\ UNCHANGED << cfg, env >>

Record(ctx, decisionAllowed) ==
  /\ calls < env.maxCalls
  /\ env.monotone => ctx.nowMs[1] >= lastCall.now
  /\ LET r == record(cfg, [map |-> map, lastSweep |-> lastSweep], ctx, decisionAllowed,
                     ctx.nowMs[1])
         d == [ key |-> r.key, sig |-> contentSig(ctx), allowed |-> decisionAllowed ]
         genuine == BagIn(d, outstanding)
     IN  /\ env.forged \/ genuine
         /\ map' = r.map
         /\ lastSweep' = r.lastSweep
         /\ lastCall' = [ op |-> "record", ctx |-> ctx, now |-> r.now, key |-> r.key,
                          sig |-> contentSig(ctx), routeCfg |-> r.routeCfg,
                          allowed |-> decisionAllowed, genuine |-> genuine,
                          decision |-> None, ret |-> r.ret,
                          created |-> r.created, swept |-> r.swept,
                          evicted |-> r.evicted,
                          pre |-> EntryOf(map, r.key), got |-> r.got, s |-> r.s,
                          sizeBefore |-> Len(map) ]
         /\ outstanding' = IF genuine THEN outstanding (-) SetToBag({d}) ELSE outstanding
         /\ log' = Append(log, [ op |-> "record", ctx |-> ctx, key |-> r.key,
                                 sig |-> contentSig(ctx), t |-> r.now,
                                 allowed |-> decisionAllowed, genuine |-> genuine,
                                 swept |-> r.swept ])
  /\ prevCall' = lastCall
  /\ calls' = calls + 1
  /\ UNCHANGED << cfg, env >>

\* configureRoute between two calls of the callers
ConfigureRoute(route, overrides) ==
  /\ calls < env.maxCalls
  /\ cfg' = configureRoute(cfg, route, overrides)
  /\ calls' = calls + 1
  /\ UNCHANGED << map, lastSweep, env, lastCall, prevCall, outstanding, log >>

\* The ctx handed to default.limit: without nowMs when the clock is read
Passed(ctx, wall) == IF wall THEN [ ctx EXCEPT !.nowMs = None ] ELSE ctx

\* The effect of a default.limit call with outcome r
LimitStep(passed, r) ==
  /\ map' = r.map
  /\ lastSweep' = r.lastSweep
  /\ lastCall' = [ op |-> "limit", ctx |-> passed, now |-> r.last.now,
                   checkedAt |-> r.checked.now,
                   key |-> r.checked.key, sig |-> contentSig(passed),
                   routeCfg |-> r.checked.routeCfg,
                   allowed |-> r.result.success, genuine |-> TRUE,
                   decision |-> r.checked.decision, result |-> r.result,
                   recorded |-> r.recorded # None,
                   pre |-> EntryOf(map, r.checked.key),
                   got |-> r.checked.got, s |-> r.last.s,
                   sizeBefore |-> Len(map) ]
  /\ log' = Append(log, [ op |-> "limit", ctx |-> passed, key |-> r.checked.key,
                          sig |-> contentSig(passed), t |-> r.last.now,
                          allowed |-> r.result.success, genuine |-> TRUE,
                          swept |-> r.checked.swept ])
  /\ prevCall' = lastCall
  /\ calls' = calls + 1
  /\ UNCHANGED << cfg, env, outstanding >>

\* default.limit(ctx); wall: ctx has no nowMs and the clock reads
\* ctx.nowMs in isAllowed and t2 in record
Limit(ctx, wall, t2) ==
  /\ env.limits
  /\ calls < env.maxCalls
  /\ env.monotone => ctx.nowMs[1] >= lastCall.now
  /\ IF wall THEN t2 >= ctx.nowMs[1] ELSE t2 = ctx.nowMs[1]
  /\ LimitStep(Passed(ctx, wall),
               limit(cfg, [map |-> map, lastSweep |-> lastSweep], Passed(ctx, wall),
                     ctx.nowMs[1], t2))

\* The effect of a request whose limiter call did fault and, when it
\* returned, had outcome r; rl is what checkRateLimit reports
PostStep(sid, fault, t1, ctx, r, rl) ==
  /\ map' = IF fault = "none" THEN r.map ELSE map
  /\ lastSweep' = IF fault = "none" THEN r.lastSweep ELSE lastSweep
  /\ lastCall' = [ op |-> "post", sid |-> sid, fault |-> fault, ctx |-> ctx,
                   now |-> IF fault = "none" THEN r.last.now ELSE t1,
                   key |-> r.checked.key,
                   routeCfg |-> r.checked.routeCfg,
                   wouldAllow |-> r.result.success,
                   result |-> IF fault = "none" THEN Some(r.result) ELSE None,
                   rl |-> rl, response |-> RateLimitStep(rl) ]
  /\ log' = IF fault = "none"
            THEN Append(log, [ op |-> "limit", ctx |-> ctx, key |-> r.checked.key,
                               sig |-> None, t |-> r.last.now,
                               allowed |-> r.result.success, genuine |-> TRUE,
                               swept |-> r.checked.swept ])
            ELSE log
  /\ prevCall' = lastCall
  /\ calls' = calls + 1
  /\ UNCHANGED << cfg, env, outstanding >>

\* checkRateLimit on the outcome r of rl.limit
PostChecked(sid, fault, t1, ctx, r) ==
  PostStep(sid, fault, t1, ctx, r,
           checkRateLimit(fault, IF fault = "none" THEN Some(r.result) ELSE None))

\* POST of the rewrite handler for the session hash sid, up to its rate
\* limit step; the clock reads t1 and t2 in the two calls of rl.limit
Post(sid, fault, t1, t2) ==
  /\ calls < env.maxCalls
  /\ t1 >= lastCall.now /\ t2 >= t1
  /\ PostChecked(sid, fault, t1, KeyCtx("rewrite:" \o sid),
                 limit(cfg, [map |-> map, lastSweep |-> lastSweep],
                       KeyCtx("rewrite:" \o sid), t1, t2))

\* The calls of the callers on a limiter whose routes are not reconfigured
NextCalls ==
  \/ \E ctx \in Ctxs : IsAllowed(ctx)
  \/ \E ctx \in Ctxs : \E decisionAllowed \in BOOLEAN : Record(ctx, decisionAllowed)

\* The calls of the callers and the reconfiguration of routes
NextConfig ==
  \/ NextCalls
  \/ \E route \in env.routes : \E overrides \in env.overrides :
        ConfigureRoute(route, overrides)

\* The calls of default.limit
NextLimit ==
  \E ctx \in Ctxs : \E wall \in BOOLEAN : \E t2 \in env.times : Limit(ctx, wall, t2)

\* The requests to the rewrite handler
NextPost ==
  \E sid \in env.sids : \E fault \in env.faults :
    \E t1 \in env.times : \E t2 \in env.times : Post(sid, fault, t1, t2)

Next ==
  \/ NextConfig
  \/ NextLimit
  \/ NextPost

Spec == Init /\ [][Next]_vars

SpecClock == InitWith(ClockSetups) /\ [][NextCalls]_vars

SpecDup == InitWith(DupSetups) /\ [][NextCalls]_vars

SpecStore == InitWith(StoreSetups) /\ [][NextCalls]_vars

SpecExample == InitWith(ExampleSetups) /\ [][NextCalls]_vars

SpecLimits == InitWith(ClockSetups \cup ExampleSetups) /\ [][NextCalls]_vars

SpecHeur == InitWith(HeurSetups) /\ [][NextCalls]_vars

SpecTtl == InitWith(TtlSetups) /\ [][NextCalls]_vars

SpecReasons == InitWith(ClockSetups \cup HeurSetups) /\ [][NextCalls]_vars

SpecConfig == InitWith(ConfigSetups) /\ [][NextConfig]_vars

SpecKey == InitWith(KeySetups) /\ [][NextCalls]_vars

SpecToken == InitWith(TokenSetups) /\ [][NextCalls]_vars

SpecSpike == InitWith(SpikeSetups) /\ [][NextCalls]_vars

SpecEvict == InitWith(EvictSetups) /\ [][NextCalls]_vars

SpecStores == InitWith(StoreSetups \cup EvictSetups) /\ [][NextCalls]_vars

SpecSweep == InitWith(SweepSetups) /\ [][NextCalls]_vars

SpecLimit == InitWith(LimitSetups) /\ [][NextLimit]_vars

SpecSessions == InitWith(SessionSetups) /\ [][NextPost]_vars

SpecFaults == InitWith(FaultSetups) /\ [][NextPost]_vars

(* ------------------------------------------------------------------ *)
(* Properties                                                          *)
(* ------------------------------------------------------------------ *)

Called == lastCall.op # "none"

CalledBefore == prevCall.op # "none"

\* Capacity of the route of entry s, in token units
CapacityUnits(s) == routeConfig(cfg, s.route).bucket.capacity * TokenUnit

\* C1: whatever timestamps (equal, decreasing) and whatever decisions the
\* callers pass, the token count of every stored entry, and of the entry
\* the last call worked on, is at least 0 and at most the capacity of its
\* route.
C1_TokensWithinCapacity ==
  /\ \A i \in 1..Len(map) :
       0 <= map[i].tokens /\ map[i].tokens <= CapacityUnits(map[i])
  /\ Called =>
       /\ 0 <= lastCall.s.tokens /\ lastCall.s.tokens <= CapacityUnits(lastCall.s)
       /\ 0 <= lastCall.got.tokens /\ lastCall.got.tokens <= CapacityUnits(lastCall.got)

\* C1 witness: record is passed an allowed decision at a time before the
\* key's last access while the key has less than one token; the count
\* stops at 0.
C1_Witness ==
  /\ lastCall.op = "record" /\ lastCall.allowed
  /\ lastCall.pre # None
  /\ lastCall.now < lastCall.pre[1].lastSeen
  /\ lastCall.pre[1].tokens < TokenUnit
  /\ lastCall.s.tokens = 0

\* Every record call so far passed a decision that isAllowed had returned
\* for the same key and payload and that no earlier record had passed
AllRecordsGenuine == \A i \in 1..Len(log) : log[i].genuine

\* C2: a record call that passes an allowed decision isAllowed returned
\* leaves at most sliding.max attempts in the window, also when other
\* requests' record calls for the key ran after that isAllowed.
C2_AllowedRecordKeepsWindow ==
  ( /\ lastCall.op = "record" /\ lastCall.allowed
    /\ AllRecordsGenuine )
  => lastCall.ret.windowCount <= lastCall.routeCfg.sliding.max

\* C3: when isAllowed denies a key at time t, the next isAllowed for the
\* key at a time t2 with t2 - t < rapidRetryMs is denied with reason
\* rapid_retries or duplicate_burst, for every t including 0.
C3_DenialThenRapidRetry ==
  ( /\ prevCall.op = "isAllowed" /\ ~prevCall.allowed
    /\ lastCall.op = "isAllowed" /\ lastCall.key = prevCall.key
    /\ lastCall.now - prevCall.now < lastCall.routeCfg.heuristics.rapidRetryMs )
  => ( /\ ~lastCall.decision.allowed
       /\ lastCall.decision.reason \in {"rapid_retries", "duplicate_burst"} )

\* Number of earlier record calls for key that passed an allowed decision
\* with signature sig at a time less than windowMs before now
PriorSubmissions(key, sig, now, windowMs) ==
  Cardinality({ i \in 1..Len(log) :
                  /\ log[i].op = "record" /\ log[i].allowed
                  /\ log[i].key = key /\ log[i].sig = sig
                  /\ now - log[i].t < windowMs })

\* Number of earlier record calls for key that passed an allowed decision
\* with signature sig at a time at least windowMs before now
OlderSubmissions(key, sig, now, windowMs) ==
  Cardinality({ i \in 1..Len(log) :
                  /\ log[i].op = "record" /\ log[i].allowed
                  /\ log[i].key = key /\ log[i].sig = sig
                  /\ now - log[i].t >= windowMs })

\* C4: when a payload is submitted (isAllowed, then record) for the
\* duplicateThreshold-th time within duplicateWindowMs, with room in the
\* window and the bucket, that submission's isAllowed returns
\* duplicate_burst.
C4_ThresholdthSubmissionIsBurst ==
  ( /\ lastCall.op = "isAllowed" /\ lastCall.sig # None
    /\ PriorSubmissions(lastCall.key, lastCall.sig, lastCall.now,
                        lastCall.routeCfg.heuristics.duplicateWindowMs) + 1
         = lastCall.routeCfg.heuristics.duplicateThreshold
    /\ lastCall.decision.windowCount < lastCall.routeCfg.sliding.max
    /\ lastCall.decision.tokensAfterRefill >= TokenUnit )
  => lastCall.decision.reason = "duplicate_burst"

\* C5: isAllowed counts no more identical submissions than were recorded
\* less than duplicateWindowMs ago; when every earlier submission of the
\* payload is at least duplicateWindowMs old, however many there are, the
\* reason is not duplicate_burst.
C5_OldDuplicatesDoNotCount ==
  ( lastCall.op = "isAllowed" /\ lastCall.sig # None )
  => LET w == lastCall.routeCfg.heuristics.duplicateWindowMs
         prior == PriorSubmissions(lastCall.key, lastCall.sig, lastCall.now, w)
     IN  /\ lastCall.decision.dupCount <= prior
         /\ prior = 0 => lastCall.decision.reason # "duplicate_burst"

\* C5 witness: the payload was recorded duplicateThreshold times or more,
\* every time at least duplicateWindowMs before this isAllowed, which
\* counts none of them.
C5_Witness ==
  /\ lastCall.op = "isAllowed" /\ lastCall.sig # None
  /\ OlderSubmissions(lastCall.key, lastCall.sig, lastCall.now,
                      lastCall.routeCfg.heuristics.duplicateWindowMs)
       >= lastCall.routeCfg.heuristics.duplicateThreshold
  /\ PriorSubmissions(lastCall.key, lastCall.sig, lastCall.now,
                      lastCall.routeCfg.heuristics.duplicateWindowMs) = 0
  /\ lastCall.decision.dupCount = 0
  /\ lastCall.decision.reason = "ok"

\* The last two calls are isAllowed calls with the same context
TwoIdenticalChecks ==
  /\ prevCall.op = "isAllowed" /\ lastCall.op = "isAllowed"
  /\ lastCall.ctx = prevCall.ctx

C7_CheckKeepsRemaining ==
  ( /\ prevCall.op = "isAllowed" /\ lastCall.op = "isAllowed"
    /\ lastCall.key = prevCall.key
    /\ lastCall.now >= prevCall.now )
  => /\ lastCall.decision.remaining >= prevCall.decision.remaining
     /\ lastCall.now = prevCall.now
          => lastCall.decision.remaining = prevCall.decision.remaining

\* C7 witness: a key with a recorded attempt is checked twice in a row,
\* the second time later, and remaining is the same both times, below
\* the limit.
C7_Witness ==
  /\ prevCall.op = "isAllowed" /\ lastCall.op = "isAllowed"
  /\ lastCall.key = prevCall.key
  /\ lastCall.now > prevCall.now
  /\ Len(lastCall.s.attempts) > 0
  /\ lastCall.decision.remaining = prevCall.decision.remaining
  /\ lastCall.decision.remaining < lastCall.decision.limit

\* C8: the store never holds more than maxEntries entries, for every
\* maxEntries the constructor accepts.
C8_StoreWithinMaxEntries == Len(map) <= cfg.store.maxEntries

\* Index in log of the most recent of the first n calls that was for
\* key, 0 when there is none
LastAccess(key, n) ==
  LET S == { i \in 1..n : log[i].key = key }
  IN  IF S = {} THEN 0 ELSE CHOOSE i \in S : \A j \in S : j <= i

\* Among the first n calls, key was last accessed before a call for
\* another key that ran the sweep at a time idleTtlMs or more after
\* that access
SweptOut(key, n) ==
  \E j \in 1..n :
    /\ log[j].swept /\ log[j].key # key
    /\ LastAccess(key, n) > 0 /\ LastAccess(key, n) < j
    /\ log[LastAccess(key, n)].t + cfg.store.idleTtlMs <= log[j].t

\* C9: a key left untouched for idleTtlMs or more is absent once a sweep
\* has run at or after its expiry, and the next access to it works on
\* fresh state: full tokens, empty attempt and content histories, no
\* denial memory.
C9_IdleKeySweptThenFresh ==
  /\ \A i \in 1..Len(log) :
       SweptOut(log[i].key, Len(log)) => ~HasKey(map, log[i].key)
  /\ ( Called /\ SweptOut(lastCall.key, Len(log) - 1) )
     => /\ lastCall.pre = None /\ lastCall.created
        /\ lastCall.got.tokens = CapacityUnits(lastCall.got)
        /\ lastCall.got.attempts = <<>>
        /\ lastCall.got.contentHistory = <<>>
        /\ lastCall.got.lastDeniedAt = None
        /\ lastCall.op = "isAllowed" =>
             /\ lastCall.decision.allowed
             /\ lastCall.decision.remaining = lastCall.decision.limit

\* C9 witness: a key with a recorded attempt was swept after its idle
\* TTL and is now checked again.
C9_Witness ==
  /\ lastCall.op = "isAllowed"
  /\ SweptOut(lastCall.key, Len(log) - 1)
  /\ \E i \in 1..(Len(log) - 1) : log[i].key = lastCall.key /\ log[i].op = "record"
  /\ lastCall.got.attempts = <<>>

\* The attempts of a are in non-decreasing timestamp order
InTimeOrder(a) == \A i \in 1..Len(a) : \A j \in i..Len(a) : a[i].t <= a[j].t

\* The calls of the example: isAllowed then record at 0, 1000 and 2000 ms,
\* then isAllowed at 2500 ms
ExampleCalls ==
  << <<"isAllowed", 0>>, <<"record", 0>>, <<"isAllowed", 1000>>, <<"record", 1000>>,
     <<"isAllowed", 2000>>, <<"record", 2000>>, <<"isAllowed", 2500>> >>

\* The calls so far are the first calls of the example, on its configuration
OnExample ==
  /\ env.name = "example"
  /\ Len(log) <= Len(ExampleCalls)
  /\ \A i \in 1..Len(log) : << log[i].op, log[i].t >> = ExampleCalls[i]

\* C10: when the attempts recorded for the key, in timestamp order, hold
\* sliding.max or more that are younger than windowMs, no heuristic
\* triggers and there is a token, isAllowed denies with rate_limited and
\* retryAfter = ceil((windowMs - (now - oldest young timestamp)) / 1000).
\* In the example the calls at 0, 1000 and 2000 ms are allowed and the
\* call at 2500 ms is denied rate_limited with retryAfter >= 58.
C10_WindowLimitRetryAfter ==
  lastCall.op = "isAllowed" =>
    LET d == lastCall.decision
        c == lastCall.routeCfg
        a == IF lastCall.pre = None THEN <<>> ELSE lastCall.pre[1].attempts
        young == { i \in 1..Len(a) : lastCall.now - a[i].t < c.sliding.windowMs }
        oldest == CHOOSE t \in { a[i].t : i \in young } :
                    \A i \in young : t <= a[i].t
    IN  /\ ( /\ InTimeOrder(a)
             /\ Cardinality(young) >= c.sliding.max
             /\ d.dupCount < c.heuristics.duplicateThreshold
             /\ ~d.rapidRetry
             /\ d.spikeCount < c.heuristics.spikeThreshold
             /\ d.tokensAfterRefill >= TokenUnit )
           => /\ ~d.allowed
              /\ d.reason = "rate_limited"
              /\ d.retryAfter =
                   ceilDiv(c.sliding.windowMs - (lastCall.now - oldest), MsPerSec)
        /\ OnExample =>
             IF Len(log) < Len(ExampleCalls)
             THEN d.allowed /\ d.reason = "ok"
             ELSE ~d.allowed /\ d.reason = "rate_limited" /\ d.retryAfter >= 58

\* C10 witness: the example's call at 2500 ms, answered with retryAfter 58.
C10_Witness ==
  /\ OnExample /\ Len(log) = Len(ExampleCalls)
  /\ lastCall.decision.reason = "rate_limited"
  /\ lastCall.decision.retryAfter = 58
  /\ lastCall.decision.tokensAfterRefill >= TokenUnit

\* The largest number of a non-empty finite set of integers
MaxOf(S) == CHOOSE m \in S : \A x \in S : x <= m

\* The smallest number of a non-empty finite set of integers
MinOf(S) == CHOOSE m \in S : \A x \in S : m <= x

\* The checks the last isAllowed call made, from the values its decision
\* rests on
DupTriggered ==
  Geq(lastCall.decision.dupCount, lastCall.routeCfg.heuristics.duplicateThreshold)

RapidTriggered == lastCall.decision.rapidRetry

SpikeTriggered ==
  Geq(lastCall.decision.spikeCount, lastCall.routeCfg.heuristics.spikeThreshold)

WindowHit == lastCall.decision.windowCount >= lastCall.routeCfg.sliding.max

TokenHit == lastCall.decision.tokensAfterRefill < TokenUnit

\* C11: the reason of every isAllowed call is duplicate_burst when the
\* duplicate detector triggered, else rapid_retries when the rapid-retry
\* detector triggered, else multi_tab_spike when the spike detector
\* triggered, else rate_limited when the window or the token limit is
\* hit, else ok.
C11_ReasonPriority ==
  lastCall.op = "isAllowed" =>
    lastCall.decision.reason =
      IF DupTriggered THEN "duplicate_burst"
      ELSE IF RapidTriggered THEN "rapid_retries"
      ELSE IF SpikeTriggered THEN "multi_tab_spike"
      ELSE IF WindowHit \/ TokenHit THEN "rate_limited"
      ELSE "ok"

\* C11 witness: the duplicate and the rapid-retry detectors both triggered
\* and the window limit is hit; the reason is duplicate_burst.
C11_Witness ==
  /\ lastCall.op = "isAllowed"
  /\ DupTriggered /\ RapidTriggered /\ WindowHit
  /\ lastCall.decision.reason = "duplicate_burst"

\* The timestamps of the submissions of the last call's payload that the
\* key's content history holds from the last duplicateWindowMs
DupTimes ==
  LET h == lastCall.s.contentHistory
  IN  { h[i].t : i \in { j \in 1..Len(h) :
                           /\ h[j].h = lastCall.sig
                           /\ h[j].t >= lastCall.now
                                        - lastCall.routeCfg.heuristics.duplicateWindowMs } }

\* The retry estimates, in whole seconds rounded up, of the conditions
\* that hold at the last isAllowed call
RetryEstimates ==
  LET c == lastCall.routeCfg
      now == lastCall.now
  IN  (IF DupTriggered
       THEN { ceilDiv(c.heuristics.duplicateWindowMs - (now - MinOf(DupTimes)), MsPerSec) }
       ELSE {})
      \cup (IF RapidTriggered
            THEN { ceilDiv(c.heuristics.rapidRetryMs - (now - lastCall.got.lastDeniedAt[1]),
                           MsPerSec) }
            ELSE {})
      \cup (IF SpikeTriggered THEN { ceilDiv(c.heuristics.spikeWindowMs, MsPerSec) } ELSE {})
      \cup (IF WindowHit
            THEN { ceilDiv(c.sliding.windowMs - (now - lastCall.s.attempts[1].t), MsPerSec) }
            ELSE {})
      \cup (IF TokenHit
            THEN { ceilDiv(TokenUnit - lastCall.decision.tokensAfterRefill,
                           c.bucket.refillPerSecond * MsPerSec) }
            ELSE {})

AttemptsBefore == IF lastCall.pre = None THEN <<>> ELSE lastCall.pre[1].attempts

\* Sequence a is sequence b without some of its first elements
IsSuffix(a, b) == Len(a) <= Len(b) /\ a = SubSeq(b, Len(b) - Len(a) + 1, Len(b))

\* C14: every decision of isAllowed has allowed = TRUE exactly when its
\* reason is ok, retryAfter a whole number >= 1 when denied and 0 when
\* allowed, limit = sliding.max, remaining within 0..limit and >= 1 when
\* allowed, and remaining = max(0, sliding.max - n), n being the number of
\* attempts of the key's time-ordered history that are younger than
\* windowMs.
C14_DecisionShape ==
  lastCall.op = "isAllowed" =>
    LET d == lastCall.decision
        c == lastCall.routeCfg
        a == AttemptsBefore
        young == { i \in 1..Len(a) : a[i].t > lastCall.now - c.sliding.windowMs }
    IN  /\ d.reason \in { "ok", "rate_limited", "duplicate_burst", "rapid_retries",
                          "multi_tab_spike" }
        /\ d.allowed <=> d.reason = "ok"
        /\ d.retryAfter \in Nat
        /\ IF d.allowed THEN d.retryAfter = 0 ELSE d.retryAfter >= 1
        /\ d.limit = c.sliding.max
        /\ 0 <= d.remaining /\ d.remaining <= d.limit
        /\ d.allowed => d.remaining >= 1
        /\ InTimeOrder(a) => d.remaining = Max2(0, c.sliding.max - Cardinality(young))

\* C14 witness: a denial while the window holds more attempts than
\* sliding.max; remaining is 0.
C14_Witness ==
  /\ lastCall.op = "isAllowed"
  /\ ~lastCall.decision.allowed
  /\ lastCall.decision.windowCount > lastCall.decision.limit
  /\ lastCall.decision.remaining = 0
  /\ lastCall.decision.retryAfter >= 1

\* Number of record calls among the first n calls that were for key at a
\* time t with from <= t
RecordedSince(key, from, n) ==
  Cardinality({ i \in 1..n : log[i].op = "record" /\ log[i].key = key /\ from <= log[i].t })

\* C15: every record call, whatever decision it is passed, leaves the
\* key's attempt history as what remained of it plus one attempt with
\* timestamp now at its end; an isAllowed that follows within the window
\* counts that attempt, and for callers whose clock never goes backwards
\* isAllowed counts every recorded attempt, allowed or denied, of the
\* sliding window and of the spike window.
C15_RecordAlwaysAppends ==
  /\ lastCall.op = "record" =>
       LET after == lastCall.s.attempts
       IN  /\ Len(after) >= 1
           /\ after[Len(after)] = [t |-> lastCall.now, h |-> lastCall.sig]
           /\ IsSuffix(SubSeq(after, 1, Len(after) - 1), AttemptsBefore)
           /\ Lookup(map, lastCall.key).attempts = after
  /\ ( /\ prevCall.op = "record" /\ lastCall.op = "isAllowed"
       /\ lastCall.key = prevCall.key
       /\ prevCall.now <= lastCall.now
       /\ lastCall.now - prevCall.now < lastCall.routeCfg.sliding.windowMs )
     => /\ lastCall.decision.windowCount >= 1
        /\ lastCall.s.attempts[Len(lastCall.s.attempts)].t = prevCall.now
        /\ lastCall.now - prevCall.now <= lastCall.routeCfg.heuristics.spikeWindowMs
             => lastCall.decision.spikeCount >= 1
  /\ ( lastCall.op = "isAllowed" /\ env.monotone )
     => /\ lastCall.decision.windowCount =
             RecordedSince(lastCall.key,
                           lastCall.now - lastCall.routeCfg.sliding.windowMs + 1,
                           Len(log) - 1)
        /\ lastCall.decision.spikeCount =
             RecordedSince(lastCall.key,
                           lastCall.now - lastCall.routeCfg.heuristics.spikeWindowMs,
                           Len(log) - 1)

\* C15 witness: record is passed a denied decision and the isAllowed that
\* follows at the same time finds the window limit hit by that attempt
\* alone.
C15_Witness ==
  /\ prevCall.op = "record" /\ ~prevCall.allowed
  /\ lastCall.op = "isAllowed" /\ lastCall.key = prevCall.key
  /\ lastCall.now = prevCall.now
  /\ lastCall.decision.windowCount = 1
  /\ WindowHit

\* C16: record takes one token, not below 0, and appends the fingerprint
\* to the content history exactly when the decision passed is allowed and
\* leaves lastDeniedAt; passed a denied decision it leaves the refilled
\* tokens and the pruned content history as they are and sets
\* lastDeniedAt to now.
C16_RecordConsumesOnlyWhenAllowed ==
  lastCall.op = "record" =>
    LET g == lastCall.got
        c == lastCall.routeCfg
        refilled == refillTokens(g, lastCall.now, c).tokens
        pruned == pruneContentHistory(g, lastCall.now, c).contentHistory
        s == lastCall.s
    IN  IF lastCall.allowed
        THEN /\ s.tokens = Max2(0, refilled - TokenUnit)
             /\ s.contentHistory =
                  IF TruthyStr(lastCall.sig)
                  THEN Append(pruned, [t |-> lastCall.now, h |-> lastCall.sig])
                  ELSE pruned
             /\ s.lastDeniedAt = g.lastDeniedAt
        ELSE /\ s.tokens = refilled
             /\ s.contentHistory = pruned
             /\ s.lastDeniedAt = Some(lastCall.now)

\* C16 witness: record is passed a denied decision for a payload while the
\* key has a token and a submission in its content history; both stay.
C16_Witness ==
  /\ lastCall.op = "record" /\ ~lastCall.allowed
  /\ lastCall.sig # None
  /\ lastCall.s.tokens >= TokenUnit
  /\ Len(lastCall.s.contentHistory) >= 1
  /\ lastCall.s.lastDeniedAt = Some(lastCall.now)

\* C17: isAllowed leaves of the key's attempt history and content history
\* what they held, less entries from their front that are older than the
\* window; it leaves the tokens or refills them, never above what the
\* elapsed time adds; it sets lastDeniedAt on a denial only; the entry it
\* leaves is the stored one.  An isAllowed that follows another for the
\* key with no record in between starts from what the first left.
C17_CheckConsumesNothing ==
  lastCall.op = "isAllowed" =>
    LET g == lastCall.got
        c == lastCall.routeCfg
        s == lastCall.s
        dropped == Len(g.attempts) - Len(s.attempts)
        forgotten == Len(g.contentHistory) - Len(s.contentHistory)
    IN  /\ IsSuffix(s.attempts, g.attempts)
        /\ \A i \in 1..dropped : g.attempts[i].t <= lastCall.now - c.sliding.windowMs
        /\ IsSuffix(s.contentHistory, g.contentHistory)
        /\ \A i \in 1..forgotten :
             g.contentHistory[i].t <= lastCall.now - c.heuristics.duplicateWindowMs
        /\ s.tokens = refillTokens(g, lastCall.now, c).tokens
        /\ s.tokens >= g.tokens
        /\ lastCall.now <= g.lastRefill => s.tokens = g.tokens
        /\ s.lastDeniedAt = IF lastCall.decision.allowed THEN g.lastDeniedAt
                            ELSE Some(lastCall.now)
        /\ s.lastSeen = lastCall.now
        /\ Lookup(map, lastCall.key) = s
        /\ ( prevCall.op = "isAllowed" /\ prevCall.key = lastCall.key )
           => /\ g.attempts = prevCall.s.attempts
              /\ g.contentHistory = prevCall.s.contentHistory
              /\ g.tokens = prevCall.s.tokens

\* C17 witness: an allowed isAllowed for a key that has a recorded attempt
\* and less than its capacity of tokens; the attempt and the tokens are
\* left as they were.
C17_Witness ==
  /\ lastCall.op = "isAllowed" /\ lastCall.decision.allowed
  /\ Len(lastCall.s.attempts) >= 1
  /\ lastCall.s.tokens < CapacityUnits(lastCall.s)
  /\ lastCall.s.attempts = lastCall.got.attempts
  /\ lastCall.s.tokens = lastCall.got.tokens

\* C18: after every isAllowed or record call the entry getOrCreate handed
\* to it is in the store, with the changes the call made to it.
C18_TouchedKeyStays ==
  Called => /\ HasKey(map, lastCall.key)
            /\ Lookup(map, lastCall.key) = lastCall.s

\* C19: the window count of every isAllowed call made at a time no
\* earlier than the calls before it is the number of record calls made
\* before it for its key with a timestamp t such that
\* now - windowMs < t <= now: it counts each of them, and no recorded
\* attempt with t <= now - windowMs, in whatever order the timestamps were
\* supplied to record.
C19_WindowCountsRecorded ==
  ( /\ lastCall.op = "isAllowed"
    /\ \A i \in 1..(Len(log) - 1) : log[i].t <= lastCall.now )
  => lastCall.decision.windowCount =
       RecordedSince(lastCall.key,
                     lastCall.now - lastCall.routeCfg.sliding.windowMs + 1,
                     Len(log) - 1)

\* C20: the route configuration every isAllowed and record call uses has
\* windowMs >= 1000, max >= 1, capacity >= 1, refillPerSecond > 0,
\* duplicateWindowMs >= 1000, duplicateThreshold >= 2, rapidRetryMs >= 250,
\* spikeWindowMs >= 50 and spikeThreshold >= 3.
C20_UsedConfigClamped ==
  Called =>
    LET c == lastCall.routeCfg
    IN  /\ Geq(c.sliding.windowMs, 1000)
        /\ Geq(c.sliding.max, 1)
        /\ Geq(c.bucket.capacity, 1)
        /\ Geq(c.bucket.refillPerSecond, 1)
        /\ Geq(c.heuristics.duplicateWindowMs, 1000)
        /\ Geq(c.heuristics.duplicateThreshold, 2)
        /\ Geq(c.heuristics.rapidRetryMs, 250)
        /\ Geq(c.heuristics.spikeWindowMs, 50)
        /\ Geq(c.heuristics.spikeThreshold, 3)

\* The triple (ip, sessionId, route) of a context, a missing ip or
\* sessionId written as the empty string
Triple(ctx) == << OrElse(ctx.ip, ""), OrElse(ctx.sessionId, ""), ctx.route >>

\* C21: two calls, isAllowed or record, whose contexts have the same
\* (ip, sessionId, route), a missing ip or sessionId counting as the empty
\* string, have the same key, and the second works on the entry the first
\* left; callers without ip and sessionId on one route share one entry.
C21_KeyIsFunctionOfTriple ==
  /\ CalledBefore =>
       ( Triple(lastCall.ctx) = Triple(prevCall.ctx)
         => /\ lastCall.key = prevCall.key
            /\ lastCall.pre = Some(prevCall.s)
            /\ ~lastCall.created )
  /\ Called =>
       /\ lastCall.key = lastCall.s.key
       /\ Triple(lastCall.ctx) = << "", "", lastCall.ctx.route >>
            => lastCall.key = compositeKey(None, None, lastCall.ctx.route)
  /\ \A i \in 1..Len(map) : \A j \in 1..Len(map) : map[i].key = map[j].key => i = j

\* C21 witness: isAllowed without ip and sessionId, then record with an
\* empty ip and an empty sessionId on the same route: one entry.
C21_Witness ==
  /\ prevCall.op = "isAllowed" /\ prevCall.ctx.ip = None /\ prevCall.ctx.sessionId = None
  /\ lastCall.op = "record" /\ lastCall.ctx.ip = Some("") /\ lastCall.ctx.sessionId = Some("")
  /\ lastCall.key = prevCall.key
  /\ lastCall.pre = Some(prevCall.s)
  /\ Len(map) = 1

\* The tokens refillTokens leaves on the entry the last call got
Refilled ==
  LET g == lastCall.got
      c == lastCall.routeCfg
  IN  IF lastCall.now > g.lastRefill
      THEN Min2(c.bucket.capacity * TokenUnit,
                g.tokens + (lastCall.now - g.lastRefill) * c.bucket.refillPerSecond)
      ELSE g.tokens

\* C22: a call at a time now > lastRefill sets the tokens to
\* min(capacity, tokens + (now - lastRefill) / 1000 * refillPerSecond) and
\* lastRefill to now; a call at a time now <= lastRefill leaves both (an
\* allowed record then takes its token); lastRefill never decreases.
C22_RefillByElapsedTime ==
  Called =>
    LET g == lastCall.got
        s == lastCall.s
        taken == IF lastCall.op = "record" /\ lastCall.allowed THEN TokenUnit ELSE 0
    IN  /\ s.tokens = Max2(0, Refilled - taken)
        /\ s.lastRefill = Max2(g.lastRefill, lastCall.now)
        /\ s.lastRefill >= g.lastRefill
        /\ lastCall.now <= g.lastRefill =>
             /\ s.lastRefill = g.lastRefill
             /\ s.tokens = Max2(0, g.tokens - taken)
        /\ lastCall.op = "isAllowed" => lastCall.decision.tokensAfterRefill = Refilled

\* C22 witness: isAllowed at a time before lastRefill on a key whose
\* bucket is not full; tokens and lastRefill stay.
C22_Witness ==
  /\ lastCall.op = "isAllowed"
  /\ lastCall.now < lastCall.got.lastRefill
  /\ lastCall.got.tokens < CapacityUnits(lastCall.got)
  /\ lastCall.s.tokens = lastCall.got.tokens
  /\ lastCall.s.lastRefill = lastCall.got.lastRefill

\* Number of record calls so far for key that passed an allowed decision
AllowedRecorded(key) ==
  Cardinality({ i \in 1..Len(log) : log[i].op = "record" /\ log[i].key = key /\ log[i].allowed })

\* The time of the first call for key
CreationTime(key) ==
  log[CHOOSE i \in 1..Len(log) :
        log[i].key = key /\ \A j \in 1..(i - 1) : log[j].key # key].t

\* C23: for one key, when every record passes a decision isAllowed
\* returned, the number of requests allowed and recorded up to the time T
\* of the last call is at most
\* capacity + refillPerSecond * (T - creation time) / 1000, also when two
\* requests run isAllowed before either runs record.
C23_TokensConserved ==
  ( lastCall.op = "record" /\ AllRecordsGenuine )
  => AllowedRecorded(lastCall.key) * TokenUnit
       <= lastCall.routeCfg.bucket.capacity * TokenUnit
          + lastCall.routeCfg.bucket.refillPerSecond
            * (lastCall.now - CreationTime(lastCall.key))

\* C24: when the tokens after the refill are below 1, the window has room
\* and no heuristic triggers, isAllowed denies with rate_limited and
\* retryAfter = max(1, ceil((1 - tokens) / refillPerSecond)); with room in
\* the window and no heuristic triggered it allows exactly when the
\* tokens after the refill are at least 1.
C24_TokenLimitRetryAfter ==
  ( /\ lastCall.op = "isAllowed"
    /\ ~DupTriggered /\ ~RapidTriggered /\ ~SpikeTriggered /\ ~WindowHit )
  => LET d == lastCall.decision
     IN  /\ d.allowed <=> Refilled >= TokenUnit
         /\ Refilled < TokenUnit =>
              /\ d.reason = "rate_limited"
              /\ d.retryAfter =
                   Max2(1, ceilDiv(TokenUnit - Refilled,
                                   lastCall.routeCfg.bucket.refillPerSecond * MsPerSec))

\* C24 witness: 500 ms after the one token was taken the bucket holds
\* 0.05 token at 0.1 per second; the window has room; retryAfter is 10.
C24_Witness ==
  /\ lastCall.op = "isAllowed"
  /\ ~WindowHit /\ ~RapidTriggered
  /\ Refilled = 500
  /\ lastCall.decision.reason = "rate_limited"
  /\ lastCall.decision.retryAfter = 10

\* C25: after every isAllowed or record call at time now the key's
\* attempt history is in ascending timestamp order and holds no attempt
\* with timestamp <= now - windowMs, and its content history holds no
\* entry with timestamp <= now - duplicateWindowMs, whatever nowMs values
\* the callers supplied.
C25_HistoriesOrderedAndPruned ==
  Called =>
    LET s == lastCall.s
        c == lastCall.routeCfg
    IN  /\ InTimeOrder(s.attempts)
        /\ \A i \in 1..Len(s.attempts) :
             s.attempts[i].t > lastCall.now - c.sliding.windowMs
        /\ \A i \in 1..Len(s.contentHistory) :
             s.contentHistory[i].t > lastCall.now - c.heuristics.duplicateWindowMs

\* C26: multi_tab_spike triggers in isAllowed exactly when the number of
\* recorded attempts of the key, allowed or denied, with timestamp
\* >= now - spikeWindowMs is at least spikeThreshold, whatever room the
\* sliding window and the token bucket have; when neither the duplicate
\* nor the rapid-retry detector triggered the decision is then denied with
\* reason multi_tab_spike.
C26_SpikeCountsRecentAttempts ==
  lastCall.op = "isAllowed" =>
    LET h == lastCall.routeCfg.heuristics
        recent == RecordedSince(lastCall.key, lastCall.now - h.spikeWindowMs,
                                Len(log) - 1)
    IN  /\ SpikeTriggered <=> recent >= h.spikeThreshold
        /\ lastCall.decision.spikeCount = recent
        /\ (SpikeTriggered /\ ~DupTriggered /\ ~RapidTriggered) =>
              /\ ~lastCall.decision.allowed
              /\ lastCall.decision.reason = "multi_tab_spike"

\* C26 witness: three attempts were recorded within the spike window, one
\* of them exactly spikeWindowMs ago, the sliding window and the bucket
\* both have room, and the call is denied as multi_tab_spike.
C26_Witness ==
  /\ lastCall.op = "isAllowed"
  /\ SpikeTriggered /\ ~WindowHit /\ ~TokenHit
  /\ \E i \in 1..(Len(log) - 1) :
        /\ log[i].op = "record" /\ log[i].key = lastCall.key
        /\ log[i].t = lastCall.now - lastCall.routeCfg.heuristics.spikeWindowMs
  /\ ~lastCall.decision.allowed
  /\ lastCall.decision.reason = "multi_tab_spike"

\* The positions in the log of the isAllowed calls for key
ChecksOf(key) == { i \in 1..Len(log) : log[i].op = "isAllowed" /\ log[i].key = key }

\* The isAllowed calls for key from position i on follow one another with
\* gaps shorter than rapidRetryMs
KeepsPace(key, i, rapidRetryMs) ==
  \A j \in ChecksOf(key) : \A k \in ChecksOf(key) :
    ( /\ i <= j /\ j < k
      /\ \A m \in ChecksOf(key) : ~(j < m /\ m < k) )
    => log[k].t - log[j].t < rapidRetryMs

\* C27: every denial returned by isAllowed, whatever its reason, sets the
\* key's lastDeniedAt to the call's now; and after a denial of a key, as
\* long as each isAllowed for the key follows the previous one by less
\* than rapidRetryMs, every one of them is denied.
C27_RetriesAtPaceStayDenied ==
  lastCall.op = "isAllowed" =>
    /\ ~lastCall.decision.allowed => lastCall.s.lastDeniedAt = Some(lastCall.now)
    /\ ( \E i \in ChecksOf(lastCall.key) :
            /\ i < Len(log) /\ ~log[i].allowed
            /\ KeepsPace(lastCall.key, i, lastCall.routeCfg.heuristics.rapidRetryMs) )
        => ~lastCall.decision.allowed

\* The positions in the log of the calls made for key before the last call
EarlierCallsOf(key) == { i \in 1..(Len(log) - 1) : log[i].key = key }

\* A quiet period of q ms is at least windowMs, duplicateWindowMs,
\* rapidRetryMs, spikeWindowMs and the time the bucket takes to refill one
\* token
QuietEnough(q, c) ==
  /\ q >= c.sliding.windowMs
  /\ q >= c.heuristics.duplicateWindowMs
  /\ q >= c.heuristics.rapidRetryMs
  /\ q >= c.heuristics.spikeWindowMs
  /\ q * c.bucket.refillPerSecond >= MsPerSec * RateUnit

\* The time between the largest timestamp supplied for the last call's key
\* before it and the last call
QuietBefore == lastCall.now - MaxOf({ log[i].t : i \in EarlierCallsOf(lastCall.key) })

\* C28: when no call was made for a key for at least max(windowMs,
\* duplicateWindowMs, rapidRetryMs, spikeWindowMs, 1000/refillPerSecond ms)
\* after the largest timestamp ever supplied for it, the next isAllowed
\* for the key is allowed with reason ok, whatever was denied before.
C28_RecoveryAfterQuiet ==
  ( /\ lastCall.op = "isAllowed"
    /\ EarlierCallsOf(lastCall.key) # {}
    /\ QuietEnough(QuietBefore, lastCall.routeCfg) )
  => ( /\ lastCall.decision.allowed
       /\ lastCall.decision.reason = "ok" )

\* C28 witness: the key was denied exactly rapidRetryMs before, nothing was
\* supplied for it since, and the call is allowed with reason ok.
C28_Witness ==
  /\ lastCall.op = "isAllowed"
  /\ EarlierCallsOf(lastCall.key) # {}
  /\ QuietEnough(QuietBefore, lastCall.routeCfg)
  /\ QuietBefore = lastCall.routeCfg.heuristics.rapidRetryMs
  /\ lastCall.pre # None
  /\ lastCall.pre[1].lastDeniedAt = Some(lastCall.now - QuietBefore)
  /\ lastCall.decision.allowed
  /\ lastCall.decision.reason = "ok"

\* C29: every entry of the store has expiresAt = lastSeen + idleTtlMs, and
\* every isAllowed or record call for a key that is in the store sets the
\* entry's lastSeen to the call's now and its expiresAt to now + idleTtlMs.
C29_ExpiryFollowsLastSeen ==
  /\ \A i \in 1..Len(map) : map[i].expiresAt = map[i].lastSeen + cfg.store.idleTtlMs
  /\ (Called /\ lastCall.pre # None) =>
        /\ lastCall.s.lastSeen = lastCall.now
        /\ lastCall.s.expiresAt = lastCall.now + cfg.store.idleTtlMs
        /\ HasKey(map, lastCall.key) => Lookup(map, lastCall.key) = lastCall.s

\* C29 witness: a call for a key last seen earlier finds the entry and
\* leaves it in the store with lastSeen = now, expiring idleTtlMs later.
C29_Witness ==
  /\ Called /\ lastCall.pre # None
  /\ lastCall.pre[1].lastSeen < lastCall.now
  /\ HasKey(map, lastCall.key)
  /\ Lookup(map, lastCall.key).lastSeen = lastCall.now
  /\ Lookup(map, lastCall.key).expiresAt = lastCall.now + cfg.store.idleTtlMs
  /\ Len(map) > 1

\* C30: a call evicts by capacity only when its key is absent and the
\* store holds maxEntries entries; it then removes exactly one entry, one
\* whose lastSeen is the smallest of all stored entries; a call for a key
\* that is in the store evicts nothing.
C30_EvictsOldestOnlyWhenFull ==
  [][ log' # log =>
        LET evicted == lastCall'.evicted
        IN  /\ evicted # {} =>
                  /\ ~HasKey(map, lastCall'.key)
                  /\ Len(map) = cfg.store.maxEntries
                  /\ Cardinality(evicted) = 1
                  /\ \A k \in evicted : \A i \in 1..Len(map) :
                        Lookup(map, k).lastSeen <= map[i].lastSeen
            /\ HasKey(map, lastCall'.key) => evicted = {} ]_vars

\* C31: a call sweeps exactly when now - lastSweep >= minSweepIntervalMs,
\* so a sweep is never less than minSweepIntervalMs after the one before
\* in supplied time; the sweep removes every entry with expiresAt <= now
\* and no entry with expiresAt > now.
C31_SweepThrottledAndExact ==
  [][ log' # log =>
        LET now == lastCall'.now
            ran == lastCall'.swept
            others == (MapKeys(map) \ {lastCall'.key}) \ lastCall'.evicted
        IN  /\ ran <=> now - lastSweep >= cfg.store.minSweepIntervalMs
            /\ lastSweep' = IF ran THEN now ELSE lastSweep
            /\ \A k \in others :
                  HasKey(map', k) <=> ~(ran /\ Lookup(map, k).expiresAt <= now)
            /\ HasKey(map', lastCall'.key) <=>
                  ~(ran /\ now + cfg.store.idleTtlMs <= now) ]_vars

\* C31 witness: a first sweep kept an entry that expired later; the next
\* sweep ran exactly minSweepIntervalMs after it, on a call for another
\* key, and removed that entry, which expired exactly then.
C31_Witness ==
  /\ Called /\ lastCall.swept
  /\ \E i \in 2..(Len(log) - 1) :
        /\ log[i].swept
        /\ log[i].t = lastCall.now - cfg.store.minSweepIntervalMs
        /\ \A j \in (i + 1)..(Len(log) - 1) : ~log[j].swept
        /\ log[i - 1].key # lastCall.key
        /\ log[i - 1].t + cfg.store.idleTtlMs > log[i].t
        /\ log[i - 1].t + cfg.store.idleTtlMs = lastCall.now
        /\ \A j \in i..(Len(log) - 1) : log[j].key = lastCall.key
        /\ ~HasKey(map, log[i - 1].key)
  /\ HasKey(map, lastCall.key)

\* The store with no entry, as swept as the store is
EmptyStore == [ map |-> <<>>, lastSweep |-> lastSweep ]

\* C32: a call for a key whose stored expiresAt is <= now decides and
\* returns what it would for a key that has no entry: isAllowed returns
\* the decision of a fresh entry and record returns the counts of a fresh
\* entry, whether or not a sweep ran since the entry expired.
C32_ExpiredStateNotUsed ==
  ( /\ Called /\ lastCall.pre # None
    /\ lastCall.pre[1].expiresAt <= lastCall.now )
  => IF lastCall.op = "isAllowed"
     THEN lastCall.decision =
            isAllowed(cfg, EmptyStore, lastCall.ctx, lastCall.now).decision
     ELSE lastCall.ret =
            record(cfg, EmptyStore, lastCall.ctx, lastCall.allowed, lastCall.now).ret

\* C33: an isAllowed or record call for a key leaves the entry of every
\* other key in the store, with the same tokens, attempt history, content
\* history and lastDeniedAt.
C33_OtherKeysUntouched ==
  [][ log' # log =>
        \A k \in MapKeys(map) \ {lastCall'.key} :
          /\ HasKey(map', k)
          /\ Lookup(map', k).tokens = Lookup(map, k).tokens
          /\ Lookup(map', k).attempts = Lookup(map, k).attempts
          /\ Lookup(map', k).contentHistory = Lookup(map, k).contentHistory
          /\ Lookup(map', k).lastDeniedAt = Lookup(map, k).lastDeniedAt ]_vars

\* The amounts of time, in ms, by which a run is moved
Shifts == {1, 1000}

\* ctx with its nowMs moved by d
Shifted(ctx, d) == [ ctx EXCEPT !.nowMs = Some(ctx.nowMs[1] + d) ]

\* A new limiter with the configuration in use: the store holds no entry
\* and has never swept
NewStore == [ map |-> <<>>, lastSweep |-> 0 ]

\* The store after the first n calls of the log are made on a new limiter
\* with every nowMs moved by d
RECURSIVE StoreAfter(_, _)
StoreAfter(n, d) ==
  IF n = 0 THEN NewStore
  ELSE LET st == StoreAfter(n - 1, d)
           ctx == Shifted(log[n].ctx, d)
           r == IF log[n].op = "isAllowed"
                THEN isAllowed(cfg, st, ctx, ctx.nowMs[1])
                ELSE record(cfg, st, ctx, log[n].allowed, ctx.nowMs[1])
       IN  [ map |-> r.map, lastSweep |-> r.lastSweep ]

\* What isAllowed hands to its caller
Returned(decision) ==
  [ allowed |-> decision.allowed, reason |-> decision.reason,
    retryAfter |-> decision.retryAfter, remaining |-> decision.remaining ]

\* C34: the calls made so far, made on a new limiter with every nowMs
\* moved by the same amount, end with an isAllowed that returns the same
\* allowed, reason, retryAfter and remaining as the isAllowed just made.
C34_ShiftedRunSameDecisions ==
  lastCall.op = "isAllowed" =>
    \A d \in Shifts :
      LET ctx == Shifted(lastCall.ctx, d)
      IN  Returned(isAllowed(cfg, StoreAfter(Len(log) - 1, d), ctx, ctx.nowMs[1]).decision)
            = Returned(lastCall.decision)

\* C35: record returns tokens as the floor of the key's token count after
\* the call, an integer from 0 to capacity; windowCount as the length of
\* the attempt history after the attempt is appended and the history
\* pruned, which is at least 1; and expiresAt = now + idleTtlMs.
C35_RecordReturnValue ==
  lastCall.op = "record" =>
    LET ret == lastCall.ret
        s == lastCall.s
    IN  /\ ret.tokens * TokenUnit <= s.tokens
        /\ s.tokens < (ret.tokens + 1) * TokenUnit
        /\ ret.tokens \in 0..lastCall.routeCfg.bucket.capacity
        /\ ret.windowCount = Len(s.attempts)
        /\ ret.windowCount >= 1
        /\ s.attempts[Len(s.attempts)].t = lastCall.now
        /\ s.attempts[1].t > lastCall.now - lastCall.routeCfg.sliding.windowMs
        /\ ret.expiresAt = lastCall.now + cfg.store.idleTtlMs
        /\ ret.key = lastCall.key /\ ret.route = lastCall.ctx.route
        /\ HasKey(map, lastCall.key) => Lookup(map, lastCall.key) = s

\* C35 witness: a record of a denied decision on a key whose token count
\* is not whole returns the floor, and its attempt is the only one left
\* after pruning.
C35_Witness ==
  /\ lastCall.op = "record" /\ ~lastCall.allowed
  /\ lastCall.s.tokens % TokenUnit # 0
  /\ lastCall.ret.tokens * TokenUnit < lastCall.s.tokens
  /\ lastCall.pre # None /\ lastCall.pre[1].attempts # <<>>
  /\ lastCall.ret.windowCount = 1

\* Number of limit calls so far that returned success and stamped their
\* attempt at a time t with from < t <= to
SuccessesIn(from, to) ==
  Cardinality({ i \in 1..Len(log) :
                  /\ log[i].op = "limit" /\ log[i].allowed
                  /\ from < log[i].t /\ log[i].t <= to })

\* C36: default.limit runs isAllowed and, when allowed, record as one
\* step.  When it returns success = true one token was taken and one
\* attempt appended for the key; when it returns success = false no
\* attempt was appended and no token taken; and whatever the order of the
\* limit calls for a key, the successes inside a window of windowMs are
\* never more than sliding.max.
C36_LimitIsOneStep ==
  lastCall.op = "limit" =>
    LET s == lastCall.s
        g == lastCall.got
        c == lastCall.routeCfg
    IN  /\ lastCall.result.success = lastCall.decision.allowed
        /\ lastCall.recorded = lastCall.result.success
        /\ HasKey(map, lastCall.key) /\ Lookup(map, lastCall.key) = s
        /\ lastCall.result.success =>
              /\ Refilled >= TokenUnit
              /\ s.tokens = Refilled - TokenUnit
              /\ \E kept \in { SubSeq(g.attempts, i, Len(g.attempts)) :
                                   i \in 1..(Len(g.attempts) + 1) } :
                    s.attempts = Append(kept, [t |-> lastCall.now, h |-> lastCall.sig])
        /\ ~lastCall.result.success =>
              /\ s.tokens = Refilled
              /\ IsSuffix(s.attempts, g.attempts)
        /\ \A i \in 1..Len(log) :
              SuccessesIn(log[i].t - c.sliding.windowMs, log[i].t) <= c.sliding.max

\* C36 witness: limit returned success = false because the window holds
\* sliding.max successes while the bucket has a token left, after a limit
\* call whose two clock readings differ.
C36_Witness ==
  /\ lastCall.op = "limit"
  /\ ~lastCall.result.success
  /\ lastCall.decision.reason = "rate_limited"
  /\ Refilled >= TokenUnit
  /\ SuccessesIn(lastCall.now - lastCall.routeCfg.sliding.windowMs, lastCall.now)
       = lastCall.routeCfg.sliding.max
  /\ \E i \in 1..(Len(log) - 1) :
        log[i].allowed /\ log[i].ctx.nowMs = None /\ log[i].t > 0

\* The positions in the log of the limiter calls made before the last
\* request for the session of the last request / for other sessions
OwnRequests ==
  { i \in 1..(Len(log) - 1) : log[i].ctx.key = lastCall.ctx.key }

\* C37: the rewrite handler limits each session apart: a request is
\* answered 429 only on account of requests of its own session, so the
\* first request of a session is never answered 429 because another
\* session used up its limit, and the requests of two sessions consult
\* different limiter keys.
C37_SessionsLimitedApart ==
  ( /\ lastCall.op = "post" /\ lastCall.fault = "none"
    /\ lastCall.response.status = 429 )
  => ( /\ OwnRequests # {}
       /\ \A i \in 1..(Len(log) - 1) :
             i \notin OwnRequests => log[i].key # lastCall.key )

\* C38: the rewrite handler fails open: when the limiter call throws or
\* gives no result checkRateLimit reports ok and the request goes on; the
\* answer is 429, with the result's retryAfter as Retry-After header,
\* only when the limiter returned a result whose success is false.
C38_HandlerFailsOpen ==
  lastCall.op = "post" =>
    LET denied == /\ lastCall.fault = "none"
                  /\ lastCall.result # None
                  /\ ~lastCall.result[1].success
    IN  /\ lastCall.fault # "none" =>
              /\ lastCall.rl.ok
              /\ lastCall.response.status # 429
        /\ lastCall.response.status = 429 <=> denied
        /\ ~lastCall.rl.ok <=> denied
        /\ denied =>
              /\ lastCall.rl.retryAfterSec = Some(lastCall.result[1].retryAfter)
              /\ lastCall.response.retryAfterHeader =
                    Some(ToString(lastCall.result[1].retryAfter))
        /\ ~denied => lastCall.response.retryAfterHeader = None

\* C38 witness: the limiter would have denied the request, the call threw,
\* and the request went on.
C38_Witness ==
  /\ lastCall.op = "post"
  /\ lastCall.fault = "throws"
  /\ ~lastCall.wouldAllow
  /\ lastCall.rl.ok
  /\ lastCall.response.status = 0
====
